---- MODULE Spec2Model ----
(***************************************************************************)
(* Verification model of the MF2103 distributed velocity servo:            *)
(*   - the PI controller (controller.c, and the draft ControllerTEST.c),    *)
(*   - the velocity estimator (peripherals.c, and the draft                 *)
(*     ApplicationTESTINSPO.c),                                             *)
(*   - the client session/control/communication threads (app-client.c),     *)
(*   - the server session/control/communication threads (app-server.c).     *)
(***************************************************************************)
EXTENDS Integers, Sequences, FiniteSets, TLC

(***************************************************************************)
(* Wide integers.  The C code computes in uint32_t and int64_t; TLC's      *)
(* integers are 32-bit, so a C value is kept as a sign and a               *)
(* little-endian sequence of base-256 digits (no leading zero digit, zero   *)
(* is not negative).  Every operator below is exact integer arithmetic;     *)
(* the C widths are applied explicitly with WrapU / WrapS.                  *)
(***************************************************************************)
Base == 16 * 16

Abs(n) == IF n < 0 THEN -n ELSE n

\* the one element of a singleton set
Only(S) == CHOOSE r \in S : TRUE

\* F applied to the value of v, and to the values of v and w: an operand is
\* evaluated once, as a C expression evaluates its operands once
Bind(v, F(_)) == Only({F(a) : a \in {v}})

Bind2(v, w, F(_, _)) == Only({F(a, b) : a \in {v}, b \in {w}})

RECURSIVE MagOf(_)
MagOf(n) == IF n = 0 THEN <<>> ELSE <<n % Base>> \o MagOf(n \div Base)

Digit(m, i) == IF i <= Len(m) THEN m[i] ELSE 0

RECURSIVE MagTrim(_)
MagTrim(m) ==
    Bind(m, LAMBDA x :
        IF x = <<>> THEN x
        ELSE IF x[Len(x)] = 0 THEN MagTrim(SubSeq(x, 1, Len(x) - 1)) ELSE x)

RECURSIVE MagCmpFrom(_, _, _)
MagCmpFrom(a, b, i) ==
    IF i = 0 THEN 0
    ELSE IF a[i] < b[i] THEN -1
    ELSE IF a[i] > b[i] THEN 1
    ELSE MagCmpFrom(a, b, i - 1)

MagCmp(a, b) ==
    Bind2(a, b, LAMBDA x, y :
        IF Len(x) < Len(y) THEN -1
        ELSE IF Len(x) > Len(y) THEN 1
        ELSE MagCmpFrom(x, y, Len(x)))

RECURSIVE MagAddFrom(_, _, _, _)
MagAddFrom(a, b, i, carry) ==
    IF i > Len(a) /\ i > Len(b)
    THEN (IF carry = 0 THEN <<>> ELSE <<carry>>)
    ELSE LET s == Digit(a, i) + Digit(b, i) + carry
         IN  <<s % Base>> \o MagAddFrom(a, b, i + 1, s \div Base)

MagAdd(a, b) == Bind2(a, b, LAMBDA x, y : MagAddFrom(x, y, 1, 0))

RECURSIVE MagSubFrom(_, _, _, _)
MagSubFrom(a, b, i, borrow) ==
    IF i > Len(a) THEN <<>>
    ELSE LET s == Digit(a, i) - Digit(b, i) - borrow
         IN  IF s < 0 THEN <<s + Base>> \o MagSubFrom(a, b, i + 1, 1)
                      ELSE <<s>> \o MagSubFrom(a, b, i + 1, 0)

\* a - b for magnitudes with a >= b
MagSub(a, b) == Bind2(a, b, LAMBDA x, y : MagTrim(MagSubFrom(x, y, 1, 0)))

RECURSIVE MagMulDigitFrom(_, _, _, _)
MagMulDigitFrom(a, k, i, carry) ==
    IF i > Len(a) THEN MagOf(carry)
    ELSE LET s == a[i] * k + carry
         IN  <<s % Base>> \o MagMulDigitFrom(a, k, i + 1, s \div Base)

RECURSIVE MagMul(_, _)
MagMul(a, b) ==
    Bind2(a, b, LAMBDA x, y :
        IF x = <<>> \/ y = <<>> THEN <<>>
        ELSE MagAdd(MagTrim(MagMulDigitFrom(x, y[1], 1, 0)),
                    MagTrim(<<0>> \o MagMul(x, Tail(y)))))

\* quotient of a magnitude by a small positive k (k < 2^22), digits i..1
RECURSIVE MagDivSmallFrom(_, _, _, _)
MagDivSmallFrom(a, k, i, r) ==
    IF i = 0 THEN <<>>
    ELSE LET cur == r * Base + a[i]
         IN  MagDivSmallFrom(a, k, i - 1, cur % k) \o <<cur \div k>>

MagDivSmall(a, k) ==
    Bind(a, LAMBDA x : MagTrim(MagDivSmallFrom(x, k, Len(x), 0)))

RECURSIVE MagToInt(_)
MagToInt(m) == IF m = <<>> THEN 0 ELSE m[1] + Base * MagToInt(Tail(m))

WMk(neg, mag) == Bind(mag, LAMBDA m : [neg |-> neg /\ m # <<>>, mag |-> m])

W(n) == WMk(n < 0, MagOf(Abs(n)))

WNeg(x) == Bind(x, LAMBDA a : WMk(~a.neg, a.mag))

WAdd(x, y) ==
    Bind2(x, y, LAMBDA a, b :
        IF a.neg = b.neg THEN WMk(a.neg, MagAdd(a.mag, b.mag))
        ELSE IF MagCmp(a.mag, b.mag) >= 0
             THEN WMk(a.neg, MagSub(a.mag, b.mag))
        ELSE WMk(b.neg, MagSub(b.mag, a.mag)))

WSub(x, y) == WAdd(x, WNeg(y))

WMul(x, y) ==
    Bind2(x, y, LAMBDA a, b : WMk(a.neg # b.neg, MagMul(a.mag, b.mag)))

WLt(x, y) ==
    Bind2(x, y, LAMBDA a, b :
        IF a.neg # b.neg THEN a.neg
        ELSE IF a.neg THEN MagCmp(a.mag, b.mag) > 0
        ELSE MagCmp(a.mag, b.mag) < 0)

WLe(x, y) == ~WLt(y, x)

\* C division by a small positive constant: the quotient truncates toward zero
WDivT(x, k) == Bind(x, LAMBDA a : WMk(a.neg, MagDivSmall(a.mag, k)))

\* 256^n
WPow(n) == WMk(FALSE, [i \in 1..(n + 1) |-> IF i = n + 1 THEN 1 ELSE 0])

\* x modulo 256^n, in 0 .. 256^n - 1 (conversion to an unsigned type of n bytes)
WrapU(x, n) ==
    Bind(x, LAMBDA a :
    Bind(MagTrim(SubSeq(a.mag, 1, IF Len(a.mag) < n THEN Len(a.mag) ELSE n)),
         LAMBDA low :
        IF ~a.neg \/ low = <<>> THEN WMk(FALSE, low)
        ELSE WSub(WPow(n), WMk(FALSE, low))))

\* x reduced into the signed type of n bytes (two's complement)
WrapS(x, n) ==
    Bind2(WrapU(x, n), WDivT(WPow(n), 2), LAMBDA u, half :
        IF WLt(u, half) THEN u ELSE WSub(u, WPow(n)))

\* a wide value that fits the TLC's integers
ToInt(x) == IF x.neg THEN -MagToInt(x.mag) ELSE MagToInt(x.mag)

UINT32_MAX == WSub(WPow(4), W(1))
INT32_MAX == WSub(WDivT(WPow(4), 2), W(1))
INT32_MIN == WNeg(WDivT(WPow(4), 2))

\* C integer division of TLC-sized integers (truncation toward zero)
TruncDiv(a, b) ==
    IF (a < 0) = (b < 0) THEN Abs(a) \div Abs(b) ELSE -(Abs(a) \div Abs(b))

\* quotient of magnitudes a / b (b # <<>>) when it is below 2^31: the largest
\* q in lo..hi with q * b <= a
RECURSIVE MagDivSearch(_, _, _, _)
MagDivSearch(a, b, lo, hi) ==
    IF lo = hi THEN lo
    ELSE LET mid == hi - ((hi - lo) \div 2)
         IN  IF MagCmp(MagMul(MagOf(mid), b), a) <= 0
             THEN MagDivSearch(a, b, mid, hi)
             ELSE MagDivSearch(a, b, lo, mid - 1)

\* C division x / y of wide values (y # 0, quotient within int32): exact, the
\* quotient truncates toward zero
WDiv(x, y) ==
    Bind2(x, y, LAMBDA a, b :
        IF MagCmp(a.mag, b.mag) < 0 THEN W(0)
        ELSE IF Len(b.mag) <= 2 \/ (Len(b.mag) = 3 /\ b.mag[3] < 64)
        THEN WMk(a.neg # b.neg, MagDivSmall(a.mag, MagToInt(b.mag)))
        ELSE WMk(a.neg # b.neg,
                 MagOf(MagDivSearch(a.mag, b.mag, 0, 2147483647))))

(***************************************************************************)
(* PI controller, src/EmbeddedMF2103/Source/controller.c                   *)
(***************************************************************************)
KP == 300000
KI == 400000
CONTROL_MAX == 1073741823
CONTROL_MIN == -1073741824

\* int32_t error = *ref - *meas;
PI_error(ref, meas) == WrapS(WSub(ref, meas), 4)

\* int64_t p_term = (int64_t)KP * (int64_t)error;
PI_p_term(error) == WrapS(WMul(W(KP), error), 8)

PI_i_increment_NoScale(error, dt_ms) ==
    WrapS(WMul(WrapS(WMul(W(KI), error), 8), dt_ms), 8)

\* int64_t i_increment = (int64_t)KI * (int64_t)error * (int64_t)dt_ms / 1000;
PI_i_increment(error, dt_ms) ==
    WDivT(WrapS(WMul(WrapS(WMul(W(KI), error), 8), dt_ms), 8), 1000)

PI_Saturate_NoLower(control_64, p_term, integ) ==
    IF WLt(W(CONTROL_MAX), control_64)
    THEN [control_64 |-> W(CONTROL_MAX),
          integrator |-> WrapS(WSub(W(CONTROL_MAX), p_term), 8)]
    ELSE [control_64 |-> control_64, integrator |-> integ]

PI_Saturate_OutputOnly(control_64, p_term, integ) ==
    IF WLt(W(CONTROL_MAX), control_64)
    THEN [control_64 |-> W(CONTROL_MAX), integrator |-> integ]
    ELSE IF WLt(control_64, W(CONTROL_MIN))
    THEN [control_64 |-> W(CONTROL_MIN), integrator |-> integ]
    ELSE [control_64 |-> control_64, integrator |-> integ]

\* Saturate output and update integrator (anti-windup)
PI_Saturate(control_64, p_term, integ) ==
    IF WLt(W(CONTROL_MAX), control_64)
    THEN [control_64 |-> W(CONTROL_MAX),
          integrator |-> WrapS(WSub(W(CONTROL_MAX), p_term), 8)]
    ELSE IF WLt(control_64, W(CONTROL_MIN))
    THEN [control_64 |-> W(CONTROL_MIN),
          integrator |-> WrapS(WSub(W(CONTROL_MIN), p_term), 8)]
    ELSE [control_64 |-> control_64, integrator |-> integ]

\* The tick of the controller once dt_ms # 0 is known (controller.c:39-64).
PI_Tick(st, ref, meas, now_ms, dt_ms) ==
    Bind(PI_error(ref, meas), LAMBDA error :
    Bind(PI_p_term(error), LAMBDA p_term :
    Bind(PI_i_increment(error, dt_ms), LAMBDA i_increment :
    Bind(WrapS(WAdd(st.integrator, i_increment), 8), LAMBDA integ :
    Bind(WrapS(WAdd(p_term, integ), 8), LAMBDA control_64 :
    Bind(PI_Saturate(control_64, p_term, integ), LAMBDA sat :
        [ret |-> WrapS(sat.control_64, 4),
         integrator |-> sat.integrator,
         time_prev |-> now_ms,
         first_call_after_reset |-> 0,
         path |-> "tick", divided |-> TRUE,
         clamped |-> sat.control_64 # control_64]))))))

PI_FirstCall_KeepFlag(st, ms) ==
    [ret |-> W(0), integrator |-> W(0), time_prev |-> ms,
     first_call_after_reset |-> 1, path |-> "first", divided |-> FALSE, clamped |-> FALSE]

\* First call: initialize timing (controller.c:24-29)
PI_FirstCall(st, ms) ==
    [ret |-> W(0), integrator |-> W(0), time_prev |-> ms,
     first_call_after_reset |-> 0, path |-> "first", divided |-> FALSE, clamped |-> FALSE]

PI_ZeroDt_Compute(st, ref, meas, now_ms) ==
    [PI_Tick(st, ref, meas, now_ms, W(0)) EXCEPT !.path = "zero_dt"]

PI_ZeroDt_ClearIntegrator(st, ref, meas, now_ms) ==
    [ret |-> W(0), integrator |-> W(0), time_prev |-> now_ms,
     first_call_after_reset |-> 0, path |-> "zero_dt", divided |-> FALSE,
     clamped |-> FALSE]

\* if (dt_ms == 0) return 0;  -- time_prev was already set to now_ms
PI_ZeroDt(st, ref, meas, now_ms) ==
    [ret |-> W(0), integrator |-> st.integrator, time_prev |-> now_ms,
     first_call_after_reset |-> 0, path |-> "zero_dt", divided |-> FALSE,
     clamped |-> FALSE]

\* int32_t Controller_PIController(const int32_t *ref, const int32_t *meas,
\*                                 const uint32_t *ms)
\* st is the controller's static state; the result carries the returned value,
\* the new static state, the path taken and whether a division was executed.
Controller_PIController(st, ref, meas, ms) ==
    IF st.first_call_after_reset = 1 THEN PI_FirstCall(st, ms)
    ELSE LET now_ms == ms
             dt_ms  == WrapU(WSub(now_ms, st.time_prev), 4)
         IN  IF dt_ms = W(0) THEN PI_ZeroDt(st, ref, meas, now_ms)
             ELSE PI_Tick(st, ref, meas, now_ms, dt_ms)

Controller_Reset_KeepFlag(st) ==
    [integrator |-> W(0), time_prev |-> W(0),
     first_call_after_reset |-> st.first_call_after_reset]

\* void Controller_Reset(void)
Controller_Reset(st) ==
    [integrator |-> W(0), time_prev |-> W(0), first_call_after_reset |-> 1]

(***************************************************************************)
(* Draft PI controller, src/ControllerTEST.c                               *)
(***************************************************************************)
KP_NUMERATOR == 1000
KP_DENOMINATOR == 1
KI_NUMERATOR == 50
KI_DENOMINATOR == 1

\* int64_t p_term = ((int64_t)KP_NUMERATOR * (int64_t)error) / KP_DENOMINATOR;
TEST_p_term(error) == WDivT(WrapS(WMul(W(KP_NUMERATOR), error), 8), KP_DENOMINATOR)

\* int64_t i_increment = ((int64_t)KI_NUMERATOR * (int64_t)error *
\*                        (int64_t)dt_ms) / (KI_DENOMINATOR * 1000);
TEST_i_increment(error, dt_ms) ==
    WDivT(WrapS(WMul(WrapS(WMul(W(KI_NUMERATOR), error), 8), dt_ms), 8),
          KI_DENOMINATOR * 1000)

\* ControllerTEST.c:26-87
Controller_PIController_TEST(st, ref, meas, ms) ==
    IF st.first_call_after_reset = 1
    THEN [ret |-> W(0), integrator |-> st.integrator, time_prev |-> ms,
          first_call_after_reset |-> 0, path |-> "first", divided |-> FALSE, clamped |-> FALSE]
    ELSE LET dt_ms == WrapU(WSub(ms, st.time_prev), 4)
         IN  IF dt_ms = W(0)
             THEN [ret |-> W(0), integrator |-> st.integrator,
                   time_prev |-> st.time_prev, first_call_after_reset |-> 0,
                   path |-> "zero_dt", divided |-> FALSE,
     clamped |-> FALSE]
             ELSE LET error       == PI_error(ref, meas)
                      p_term      == TEST_p_term(error)
                      i_increment == TEST_i_increment(error, dt_ms)
                      integ       == WrapS(WAdd(st.integrator, i_increment), 8)
                      control_64  == WrapS(WAdd(p_term, integ), 8)
                      sat         == PI_Saturate(control_64, p_term, integ)
                  IN  [ret |-> WrapS(sat.control_64, 4),
                       integrator |-> sat.integrator,
                       time_prev |-> ms,
                       first_call_after_reset |-> 0,
                       path |-> "tick", divided |-> TRUE,
                       clamped |-> sat.control_64 # control_64]

(***************************************************************************)
(* Velocity estimator, src/EmbeddedMF2103/Source/peripherals.c             *)
(***************************************************************************)
RESOLUTION == 2048

\* (int16_t)(TIM1->CNT & 0xFFFF): the 16-bit register read as a signed count
AsInt16(cnt) == IF cnt >= 32768 THEN cnt - 65536 ELSE cnt

\* encoder = -(int16_t)(TIM1->CNT & 0xFFFF);  stored into int16_t encoder
NegatedCount(cnt) == AsInt16((65536 - AsInt16(cnt)) % 65536)

\* rpm_filt = (alpha_num * rpm + (alpha_den - alpha_num) * rpm_filt) / alpha_den;
IIR_Filter(rpm, filt_prev) ==
    LET alpha_num == 1
        alpha_den == 10
    IN  TruncDiv(alpha_num * rpm + (alpha_den - alpha_num) * filt_prev, alpha_den)

\* int32_t rpm = (int32_t)(num / den);
Raw_rpm(counts, dt_ms) ==
    LET num == WMul(W(counts), W(60000))
        den == WMul(W(RESOLUTION), dt_ms)
    IN  ToInt(WrapS(WDiv(num, den), 4))

\* if (dt_ms == 0) return rpm_filt;   -- last_ms was already set to ms
Est_ZeroDt(st, ms) ==
    [ret |-> st.rpm_filt, last_ms |-> ms, rpm_filt |-> st.rpm_filt,
     vel_initialized |-> 1, encoder |-> st.encoder, TIM1_CNT |-> st.TIM1_CNT,
     path |-> "zero_dt", divided |-> FALSE, counts |-> 0]

\* First call: initialize timestamp and filter, return 0 (TIM1 counter reset)
Est_FirstCall(st, ms) ==
    [ret |-> 0, last_ms |-> ms, rpm_filt |-> 0, vel_initialized |-> 1,
     encoder |-> st.encoder, TIM1_CNT |-> 0,
     path |-> "first", divided |-> FALSE, counts |-> 0]

\* the counts entering the rate: the negated signed reading of the counter
Est_ReadCount(cnt) == NegatedCount(cnt)

\* int32_t Peripheral_Encoder_CalculateVelocity(uint32_t ms)
\* st holds last_ms, rpm_filt, vel_initialized, encoder and the TIM1 counter.
Peripheral_Encoder_CalculateVelocity(st, ms) ==
    IF st.vel_initialized = 0 THEN Est_FirstCall(st, ms)
    ELSE LET dt_ms == WrapU(WSub(ms, st.last_ms), 4)
         IN  IF dt_ms = W(0) THEN Est_ZeroDt(st, ms)
             ELSE LET enc  == Est_ReadCount(st.TIM1_CNT)
                      rpm  == Raw_rpm(enc, dt_ms)
                      filt == IIR_Filter(rpm, st.rpm_filt)
                  IN  [ret |-> filt, last_ms |-> ms, rpm_filt |-> filt,
                       vel_initialized |-> 1, encoder |-> enc, TIM1_CNT |-> 0,
                       path |-> "tick", divided |-> TRUE, counts |-> enc]

(***************************************************************************)
(* Draft velocity estimator, src/ApplicationTESTINSPO.c                    *)
(***************************************************************************)
RESOLUTION_DRAFT == 44

Draft_encoder_diff_NoWrap(encoder_current, encoder_prev) ==
    encoder_current - encoder_prev

\* int32_t encoder_diff = (int32_t)encoder_current - (int32_t)encoder_prev;
\* if (encoder_diff > 32767) encoder_diff -= 65536;
\* else if (encoder_diff < -32767) encoder_diff += 65536;
Draft_encoder_diff(encoder_current, encoder_prev) ==
    LET encoder_diff == encoder_current - encoder_prev
    IN  IF encoder_diff > 32767 THEN encoder_diff - 65536
        ELSE IF encoder_diff < -32767 THEN encoder_diff + 65536
        ELSE encoder_diff

\* velocity_rpm: round to nearest by adding/subtracting half the denominator
Draft_velocity_rpm(encoder_diff, dt_ms) ==
    LET numerator   == WMul(W(encoder_diff), W(60000))
        denominator == WMul(W(RESOLUTION_DRAFT), dt_ms)
    IN  IF denominator = W(0) THEN 0
        ELSE IF ~numerator.neg
        THEN ToInt(WrapS(WDiv(WAdd(numerator, WDivT(denominator, 2)),
                              denominator), 4))
        ELSE ToInt(WrapS(WDiv(WSub(numerator, WDivT(denominator, 2)),
                              denominator), 4))

\* int32_t Peripheral_Encoder_CalculateVelocity(uint32_t millisec)  (draft)
\* st holds encoder, encoder_prev, time_prev, first_call and the TIM1 counter.
Peripheral_Encoder_CalculateVelocity_DRAFT(st, millisec) ==
    LET encoder_current == AsInt16(st.TIM1_CNT)
    IN  IF st.first_call = 1
        THEN [ret |-> 0, encoder |-> encoder_current,
              encoder_prev |-> encoder_current, time_prev |-> millisec,
              first_call |-> 0, path |-> "first", divided |-> FALSE,
              counts |-> 0]
        ELSE LET dt_ms == WrapU(WSub(millisec, st.time_prev), 4)
             IN  IF dt_ms = W(0)
                 THEN [ret |-> 0, encoder |-> encoder_current,
                       encoder_prev |-> st.encoder_prev,
                       time_prev |-> st.time_prev, first_call |-> 0,
                       path |-> "zero_dt", divided |-> FALSE, counts |-> 0]
                 ELSE LET encoder_diff ==
                              Draft_encoder_diff(encoder_current, st.encoder_prev)
                      IN  [ret |-> Draft_velocity_rpm(encoder_diff, dt_ms),
                           encoder |-> encoder_current,
                           encoder_prev |-> encoder_current,
                           time_prev |-> millisec, first_call |-> 0,
                           path |-> "tick", divided |-> TRUE,
                           counts |-> encoder_diff]

(***************************************************************************)
(* State.                                                                  *)
(***************************************************************************)
VARIABLES
    unit,                    \* the translation unit exercised (kernel runs)
    integrator,              \* controller.c: static int64_t integrator
    time_prev,               \* controller.c: static uint32_t time_prev
    first_call_after_reset,  \* controller.c: static uint8_t
    last_ms,                 \* peripherals.c: static uint32_t last_ms
    rpm_filt,                \* peripherals.c: static int32_t rpm_filt
    vel_initialized,         \* peripherals.c: static uint8_t vel_initialized
    encoder,                 \* int16_t encoder (global, both estimators)
    encoder_prev,            \* ApplicationTESTINSPO.c: static int16_t
    time_prev_enc,           \* ApplicationTESTINSPO.c: static uint32_t time_prev
    first_call,              \* ApplicationTESTINSPO.c: static uint8_t
    TIM1_CNT,                \* the encoder timer's 16-bit counter register
    calls,                   \* number of calls made so far (kernel runs)
    disp,                    \* shaft displacement since the estimator's baseline
    hist,                    \* the last call: inputs, state before, result
    connection_established,  \* app-*.c: static volatile uint8_t
    connection_lost,         \* app-*.c: static volatile uint8_t
    client_socket,           \* app-*.c: static int8_t client_socket
    server_socket,           \* app-server.c: static int8_t server_socket
    reference,               \* int32_t reference
    velocity,                \* int32_t velocity
    control,                 \* int32_t control
    millisec,                \* uint32_t millisec
    timer_ctrl,              \* TRUE while the periodic timer_ctrl is running
    timer_ref,               \* TRUE while the periodic timer_ref is running
    pc,                      \* the statement each thread is at
    tflags,                  \* the thread flags pending on each thread
    locals,                  \* the threads' local variables (flags, rx_data)
    motor,                   \* motor driver: enable pin and last PWM command
    clock,                   \* Main_GetTickMillisec()
    net,                     \* the transport and the peer behind it
    obs                      \* observations of the run the claims refer to

ctrlVars == <<integrator, time_prev, first_call_after_reset>>
estVars == <<last_ms, rpm_filt, vel_initialized, encoder, encoder_prev,
             time_prev_enc, first_call, TIM1_CNT>>
kernelVars == <<unit, calls, disp, hist>>
connVars == <<connection_established, connection_lost, client_socket,
              server_socket>>
dataVars == <<reference, velocity, control, millisec>>
timerVars == <<timer_ctrl, timer_ref>>
thrVars == <<pc, tflags, locals>>
envVars == <<motor, clock, net, obs>>
appVars == <<connVars, dataVars, timerVars, thrVars, envVars>>
vars == <<ctrlVars, estVars, kernelVars, appVars>>

CtrlState ==
    [integrator |-> integrator, time_prev |-> time_prev,
     first_call_after_reset |-> first_call_after_reset]

EstState ==
    [last_ms |-> last_ms, rpm_filt |-> rpm_filt,
     vel_initialized |-> vel_initialized, encoder |-> encoder,
     TIM1_CNT |-> TIM1_CNT]

DraftEstState ==
    [encoder |-> encoder, encoder_prev |-> encoder_prev,
     time_prev |-> time_prev_enc, first_call |-> first_call,
     TIM1_CNT |-> TIM1_CNT]

\* static initialisers of controller.c:14-16 / ControllerTEST.c:19-21
CtrlInit ==
    /\ integrator = W(0)
    /\ time_prev = W(0)
    /\ first_call_after_reset = 1

\* static initialisers of peripherals.c:28-29,94 and ApplicationTESTINSPO.c:12-15
EstInit ==
    /\ last_ms = W(0)
    /\ rpm_filt = 0
    /\ vel_initialized = 0
    /\ encoder = 0
    /\ encoder_prev = 0
    /\ time_prev_enc = W(0)
    /\ first_call = 1

(***************************************************************************)
(* Kernel runs: one translation unit is driven through a bounded sequence   *)
(* of calls with inputs drawn from the sets below.                          *)
(***************************************************************************)
MaxCalls == 3

CtrlUnits == {"controller.c", "ControllerTEST.c"}
EstUnits == {"peripherals.c", "ApplicationTESTINSPO.c"}

\* reference is 2000 after Application_Setup and is negated by app_ref
References == {W(2000), W(-2000)}
Measured == {W(0), W(2000), W(2500)}
Stamps == {W(0), W(50), W(2050), UINT32_MAX}
\* counter movement between two calls, and the counter's value at start
EstStamps == {W(0), W(50), UINT32_MAX}
Displacements == {-32767, -1, 0, 1, 32767}
CounterStarts == {0, 32767, 32768}

NoHist ==
    [op |-> "none", path |-> "none", ref |-> W(0), meas |-> W(0), ms |-> W(0),
     ret |-> W(0), divided |-> FALSE, clamped |-> FALSE, counts |-> 0,
     disp |-> 0, called |-> FALSE, mono |-> TRUE,
     pre |-> [integrator |-> W(0), time_prev |-> W(0), first |-> 1,
              last_ms |-> W(0), rpm_filt |-> 0, encoder |-> 0,
              encoder_prev |-> 0, TIM1_CNT |-> 0],
     prev |-> [op |-> "none", path |-> "none", ret |-> W(0), ms |-> W(0),
               clamped |-> FALSE]]

PrevOf(h) ==
    [op |-> h.op, path |-> h.path, ret |-> h.ret, ms |-> h.ms,
     clamped |-> h.clamped]

\* the application is not running: globals as Application_Setup leaves them
AppIdle ==
    /\ connection_established = 0
    /\ connection_lost = 0
    /\ client_socket = -1
    /\ server_socket = -1
    /\ reference = W(2000)
    /\ velocity = W(0)
    /\ control = W(0)
    /\ millisec = W(0)
    /\ timer_ctrl = FALSE
    /\ timer_ref = FALSE
    /\ pc = [t \in {"main", "ctrl", "comm", "ref"} |-> "idle"]
    /\ tflags = [t \in {"main", "ctrl", "comm", "ref"} |-> {}]
    /\ locals = <<>>
    /\ motor = <<>>
    /\ clock = 0
    /\ net = <<>>
    /\ obs = <<>>

KernelInit ==
    /\ unit \in CtrlUnits \cup EstUnits
    /\ AppIdle
    /\ CtrlInit
    /\ EstInit
    /\ TIM1_CNT \in (IF unit \in EstUnits THEN CounterStarts ELSE {0})
    /\ calls = 0
    /\ disp = 0
    /\ hist = NoHist

\* control = Controller_PIController(&reference, &velocity, &millisec);
KPICall ==
    /\ unit \in CtrlUnits
    /\ calls < MaxCalls
    /\ \E ref \in References, meas \in Measured, ms \in Stamps :
          \E r \in {IF unit = "controller.c"
                   THEN Controller_PIController(CtrlState, ref, meas, ms)
                   ELSE Controller_PIController_TEST(CtrlState, ref, meas, ms)} :
              /\ integrator' = r.integrator
              /\ time_prev' = r.time_prev
              /\ first_call_after_reset' = r.first_call_after_reset
              /\ hist' = [NoHist EXCEPT
                    !.op = "pi", !.path = r.path, !.ref = ref, !.meas = meas,
                    !.ms = ms, !.ret = r.ret, !.divided = r.divided,
                    !.clamped = r.clamped, !.called = TRUE,
                    !.mono = hist.mono /\ (hist.called => WLt(hist.ms, ms)),
                    !.pre = [NoHist.pre EXCEPT
                               !.integrator = integrator,
                               !.time_prev = time_prev,
                               !.first = first_call_after_reset],
                    !.prev = PrevOf(hist)]
    /\ calls' = calls + 1
    /\ UNCHANGED <<estVars, unit, disp, appVars>>

\* Controller_Reset();
KReset ==
    /\ unit \in CtrlUnits
    /\ calls < MaxCalls
    /\ LET r == Controller_Reset(CtrlState)
       IN  /\ integrator' = r.integrator
           /\ time_prev' = r.time_prev
           /\ first_call_after_reset' = r.first_call_after_reset
    /\ hist' = [NoHist EXCEPT
          !.op = "reset", !.ms = hist.ms, !.called = hist.called,
          !.mono = hist.mono,
          !.pre = [NoHist.pre EXCEPT
                     !.integrator = integrator, !.time_prev = time_prev,
                     !.first = first_call_after_reset],
          !.prev = PrevOf(hist)]
    /\ calls' = calls + 1
    /\ UNCHANGED <<estVars, unit, disp, appVars>>

\* velocity = Peripheral_Encoder_CalculateVelocity(millisec);
\* the shaft has moved the counter by d counts since the previous call
KEstCall ==
    /\ unit \in EstUnits
    /\ calls < MaxCalls
    /\ \E ms \in EstStamps, d \in Displacements :
          LET cnt == (TIM1_CNT + d + 65536) % 65536
              h == [NoHist EXCEPT
                      !.op = "est", !.ms = ms, !.called = TRUE,
                      !.disp = disp + d,
                      !.pre = [NoHist.pre EXCEPT
                                 !.last_ms = IF unit = "peripherals.c"
                                             THEN last_ms ELSE time_prev_enc,
                                 !.first = IF unit = "peripherals.c"
                                           THEN 1 - vel_initialized
                                           ELSE first_call,
                                 !.rpm_filt = rpm_filt,
                                 !.encoder = encoder,
                                 !.encoder_prev = encoder_prev,
                                 !.TIM1_CNT = cnt],
                      !.prev = PrevOf(hist)]
          IN  IF unit = "peripherals.c"
              THEN \E r \in {Peripheral_Encoder_CalculateVelocity(
                                [EstState EXCEPT !.TIM1_CNT = cnt], ms)} :
                       /\ last_ms' = r.last_ms
                       /\ rpm_filt' = r.rpm_filt
                       /\ vel_initialized' = r.vel_initialized
                       /\ encoder' = r.encoder
                       /\ TIM1_CNT' = r.TIM1_CNT
                       /\ disp' = IF r.path = "zero_dt" THEN disp + d ELSE 0
                       /\ hist' = [h EXCEPT !.path = r.path, !.ret = r.ret,
                                     !.divided = r.divided, !.counts = r.counts]
                       /\ UNCHANGED <<encoder_prev, time_prev_enc, first_call>>
              ELSE \E r \in {Peripheral_Encoder_CalculateVelocity_DRAFT(
                                [DraftEstState EXCEPT !.TIM1_CNT = cnt], ms)} :
                       /\ encoder' = r.encoder
                       /\ encoder_prev' = r.encoder_prev
                       /\ time_prev_enc' = r.time_prev
                       /\ first_call' = r.first_call
                       /\ TIM1_CNT' = cnt
                       /\ disp' = IF r.path = "zero_dt" THEN disp + d ELSE 0
                       /\ hist' = [h EXCEPT !.path = r.path, !.ret = r.ret,
                                     !.divided = r.divided, !.counts = r.counts]
                       /\ UNCHANGED <<last_ms, rpm_filt, vel_initialized>>
    /\ calls' = calls + 1
    /\ UNCHANGED <<ctrlVars, unit, appVars>>

KernelNext == KPICall \/ KReset \/ KEstCall

SpecKernel == KernelInit /\ [][KernelNext]_vars

(***************************************************************************)
(* Claims about the controller and the estimator (SpecKernel).             *)
(***************************************************************************)
InRange(x) == WLe(W(CONTROL_MIN), x) /\ WLe(x, W(CONTROL_MAX))

Clamp(x) ==
    IF WLt(W(CONTROL_MAX), x) THEN W(CONTROL_MAX)
    ELSE IF WLt(x, W(CONTROL_MIN)) THEN W(CONTROL_MIN)
    ELSE x

\* the last call was a controller call that is not a first call and has dt > 0
HDt == WrapU(WSub(hist.ms, hist.pre.time_prev), 4)
HTick == hist.op = "pi" /\ hist.pre.first = 0 /\ HDt # W(0)
\* exact (unbounded) values of that call's terms for controller.c's gains
HError == WSub(hist.ref, hist.meas)
HPTerm == WMul(W(KP), HError)
HRawSum ==
    WAdd(WAdd(HPTerm, hist.pre.integrator),
         WDivT(WMul(WMul(W(KI), HError), HDt), 1000))

\* C3: with strictly increasing timestamps, every command returned by
\* Controller_PIController (calls optionally interleaved with Controller_Reset)
\* lies within [CONTROL_MIN, CONTROL_MAX].
C3_CommandInRange ==
    (unit \in CtrlUnits /\ hist.op = "pi" /\ hist.mono) => InRange(hist.ret)

C3_Witness ==
    /\ unit = "controller.c" /\ hist.op = "pi" /\ hist.mono
    /\ hist.clamped /\ hist.ret = W(CONTROL_MIN)

\* C4: after a completed tick, CONTROL_MIN <= p_term + integrator <= CONTROL_MAX
\* for that call's p_term, and when the output was clamped the integrator is
\* exactly the clamped command minus p_term.
C4_AntiWindup ==
    (unit = "controller.c" /\ HTick) =>
        /\ InRange(WAdd(HPTerm, integrator))
        /\ (~InRange(HRawSum) => integrator = WSub(hist.ret, HPTerm))

C4_Witness ==
    /\ unit = "controller.c" /\ HTick
    /\ ~InRange(HRawSum) /\ hist.ret = W(CONTROL_MAX)
    /\ integrator = WSub(W(CONTROL_MAX), HPTerm)

\* C5: a non-first call with dt > 0 returns
\* clamp(KP*e + I_prev + KI*e*dt/1000, CONTROL_MIN, CONTROL_MAX); after saturated
\* outputs the first in-range sum is returned unclamped; reference 2000,
\* measured 0, dt 50 ms from a zero integrator gives 640000000.
C5_Command ==
    (unit = "controller.c" /\ HTick) =>
        /\ hist.ret = Clamp(HRawSum)
        /\ (hist.prev.clamped /\ InRange(HRawSum) => hist.ret = HRawSum)
        /\ (/\ hist.pre.integrator = W(0) /\ hist.ref = W(2000)
            /\ hist.meas = W(0) /\ HDt = W(50)
            => hist.ret = W(640000000) /\ integrator = W(40000000))

C5_Witness ==
    /\ unit = "controller.c" /\ HTick
    /\ hist.prev.op = "pi" /\ hist.prev.clamped
    /\ InRange(HRawSum) /\ hist.ret = HRawSum /\ hist.ret # W(0)

\* C6: the first call of the estimator in its initial state and the first call
\* of the controller after a reset return 0 for every timestamp, divide nothing
\* and mark the state initialized; the next call is not taken as a first call.
Initialized ==
    CASE unit \in CtrlUnits -> first_call_after_reset = 0
      [] unit = "peripherals.c" -> vel_initialized = 1
      [] OTHER -> first_call = 0

C6_FirstCall ==
    /\ (hist.op \in {"pi", "est"} /\ hist.pre.first = 1) =>
          /\ hist.ret = (IF hist.op = "pi" THEN W(0) ELSE 0)
          /\ ~hist.divided
          /\ Initialized
    /\ (hist.op \in {"pi", "est"} /\ hist.pre.first = 0) =>
          /\ hist.path # "first"
          /\ Initialized

C6_Witness ==
    /\ hist.op \in {"pi", "est"} /\ hist.pre.first = 0
    /\ hist.prev.op \in {"pi", "est"} /\ hist.prev.path = "first"
    /\ hist.prev.ms = UINT32_MAX /\ hist.path = "tick"

\* the estimator's stored previous timestamp, before and after the last call
EstStoredMs == IF unit = "peripherals.c" THEN last_ms ELSE time_prev_enc

\* C7: an estimator call whose timestamp equals that of the previous call
\* returns the previously returned velocity and leaves the stored previous
\* timestamp, previous count and filtered value unchanged.
C7_EstimatorZeroDt ==
    (unit \in EstUnits /\ hist.op = "est" /\ hist.prev.op = "est"
       /\ hist.ms = hist.prev.ms) =>
        /\ hist.ret = hist.prev.ret
        /\ EstStoredMs = hist.pre.last_ms
        /\ rpm_filt = hist.pre.rpm_filt
        /\ encoder_prev = hist.pre.encoder_prev
        /\ TIM1_CNT = hist.pre.TIM1_CNT

\* C8 (as stated): the second of two consecutive controller calls with the
\* same timestamp returns the command the first returned, and does not change
\* the stored previous timestamp.
C8_SameCommandOnRepeat ==
    (unit \in CtrlUnits /\ hist.op = "pi" /\ hist.prev.op = "pi"
       /\ hist.ms = hist.prev.ms) =>
        /\ hist.ret = hist.prev.ret
        /\ time_prev = hist.pre.time_prev

\* C8 (amended): the second of two consecutive controller calls with the same
\* timestamp returns 0, and changes neither the stored previous timestamp nor
\* the integrator.
C8_ZeroOnRepeat ==
    (unit \in CtrlUnits /\ hist.op = "pi" /\ hist.prev.op = "pi"
       /\ hist.ms = hist.prev.ms) =>
        /\ hist.ret = W(0)
        /\ time_prev = hist.pre.time_prev
        /\ integrator = hist.pre.integrator

C8_Witness ==
    /\ unit = "controller.c" /\ hist.op = "pi" /\ hist.prev.op = "pi"
    /\ hist.ms = hist.prev.ms /\ hist.prev.ret # W(0)
    /\ hist.ret = W(0) /\ time_prev = hist.pre.time_prev

\* C9: for a displacement d with |d| <= 32767, the estimator computes its
\* velocity from d itself, whether or not the counter's representation wrapped
\* (peripherals.c negates the count: its rate is computed from -d).
HEstDt == WrapU(WSub(hist.ms, hist.pre.last_ms), 4)
HEstTick == hist.op = "est" /\ hist.pre.first = 0 /\ HEstDt # W(0)

C9_Wraparound ==
    (unit \in EstUnits /\ HEstTick /\ Abs(hist.disp) <= 32767) =>
        IF unit = "peripherals.c"
        THEN /\ hist.counts = -hist.disp
             /\ hist.ret = IIR_Filter(Raw_rpm(-hist.disp, HEstDt),
                                      hist.pre.rpm_filt)
        ELSE /\ hist.counts = hist.disp
             /\ hist.ret = Draft_velocity_rpm(hist.disp, HEstDt)

C9_Witness ==
    /\ unit = "ApplicationTESTINSPO.c" /\ HEstTick
    /\ Abs(hist.disp) <= 32767
    /\ AsInt16(hist.pre.TIM1_CNT) - hist.pre.encoder_prev # hist.disp
    /\ hist.counts = hist.disp /\ hist.ret # 0

(***************************************************************************)
(* Threads, priorities and thread flags (both applications).               *)
(* app_main runs at osPriorityBelowNormal, app_ctrl at osPriorityAboveNormal,*)
(* app_comm and app_ref at osPriorityNormal: a thread runs only while no    *)
(* thread of higher priority is ready.                                      *)
(***************************************************************************)
Threads == {"main", "ctrl", "comm", "ref"}

Priority_CommFirst(t) == CASE t = "comm" -> 3 [] t = "main" -> 1 [] OTHER -> 2

Priority_MainFirst(t) == CASE t = "main" -> 3 [] t = "ctrl" -> 1 [] OTHER -> 2

Priority(t) == CASE t = "ctrl" -> 3 [] t = "main" -> 1 [] OTHER -> 2

FlagWaits_CtrlOnTimer ==
    [m_wait_disc |-> "disconnected", sm_wait_disc |-> "disconnected",
     k_wait_periodic |-> "periodic",
     k_wait_ctrl |-> "control_received", c_wait_conn |-> "connected",
     c_wait_data |-> "data_ready", sk_wait_data |-> "periodic",
     sr_wait_periodic |-> "periodic", sc_wait_conn |-> "connected",
     sc_wait_ctrl |-> "control_ready"]

\* the flag each osThreadFlagsWait statement waits for
FlagWaits ==
    [m_wait_disc |-> "disconnected", sm_wait_disc |-> "disconnected",
     k_wait_periodic |-> "periodic",
     k_wait_ctrl |-> "control_received", c_wait_conn |-> "connected",
     c_wait_data |-> "data_ready", sk_wait_data |-> "new_data",
     sr_wait_periodic |-> "periodic", sc_wait_conn |-> "connected",
     sc_wait_ctrl |-> "control_ready"]

\* statements that suspend the thread in osDelay or in a blocking socket call
Suspended ==
    {"idle", "m_delay", "m_retry_delay", "m_connect", "c_recv",
     "sm_delay", "sm_retry_delay", "sm_accept", "sc_recv"}

Ready(t) ==
    IF pc[t] \in DOMAIN FlagWaits THEN FlagWaits[pc[t]] \in tflags[t]
    ELSE pc[t] \notin Suspended

CanRun(t) == \A h \in Threads : Priority(h) > Priority(t) => ~Ready(h)

At(t, l) == pc[t] = l /\ CanRun(t)

Goto(t, l) == pc' = [pc EXCEPT ![t] = l]

\* osThreadFlagsSet(tid, flag)
osThreadFlagsSet(t, f) == tflags' = [tflags EXCEPT ![t] = @ \cup {f}]

\* every flag of the application: the bits of the value osThreadFlagsWait
\* returns on a timeout (an error code of the RTOS) include all of them
AllFlags ==
    {"periodic", "connected", "disconnected", "data_ready",
     "control_received", "new_data", "control_ready"}

\* The values a timed osThreadFlagsWait can return when the time runs out.
\* The RTOS header is not among the sources: either no bit of the mask is set
\* in the returned value, or (CMSIS-RTOS2, osFlagsErrorTimeout = 0xFFFFFFFE)
\* every bit of the mask is.
TimeoutReturns == {{}, AllFlags}

PERIOD_CTRL == 50

\* the waits with a timeout: PERIOD_CTRL * 2 on the client, PERIOD_CTRL on the
\* server
TimedWaits == {"k_wait_ctrl", "c_wait_data", "sc_wait_ctrl"}

\* osDelay(500) and osDelay(1000) outlast every wait with a timeout that is
\* pending when they start: the delay returns after those waits have
\* returned
DelayOver == \A t \in Threads : pc[t] \notin TimedWaits

(***************************************************************************)
(* Client, src/EmbeddedMF2103/Source/app-client.c                          *)
(***************************************************************************)
MaxSessions == 2
MaxTicks == 2
MaxLinkFaults == 1
MaxRetries == 1

Commands == {W(0), W(640000000)}
ClientDisplacements == {0, -512}

\* sizeof(ClientData_t): int32_t velocity, uint32_t timestamp
SizeofClientData == 4 + 4
\* sizeof(ServerData_t): int32_t control
SizeofServerData == 4

\* the byte counts send and recv can return for a record of size n: an
\* error, a part of the record, the whole record
Failed == -1
ShortCounts(n) == 1 .. (n - 1)

\* an event of app_comm that ends the session: e is the new event, none if
\* the statement succeeded
CommEvent(e) == locals' = [locals EXCEPT !.comm_event = e]

NoTag == [s |-> 0, n |-> 0]

\* the state after Application_Setup, with n timer expiries counted so far
ClientStart(n) ==
    /\ unit = "app-client.c"
    /\ CtrlInit
    /\ EstInit
    /\ TIM1_CNT = 0
    /\ calls = 0
    /\ disp = 0
    /\ hist = NoHist
    /\ connection_established = 0
    /\ connection_lost = 0
    /\ client_socket = -1
    /\ server_socket = -1
    /\ reference = W(2000)
    /\ velocity = W(0)
    /\ control = W(0)
    /\ millisec = W(0)
    /\ timer_ctrl = FALSE
    /\ timer_ref = FALSE
    /\ pc = [main |-> "m_check_lost", ctrl |-> "k_wait_periodic",
             comm |-> "c_wait_conn", ref |-> "idle"]
    /\ tflags = [t \in Threads |-> {}]
    /\ locals = [ctrl_flags |-> {}, ctrl_timeout |-> FALSE,
                 comm_event |-> "none",
                 rx_data |-> [control |-> W(0), tag |-> NoTag]]
    /\ motor = [enabled |-> TRUE, pwm |-> W(0)]
    /\ clock = 0
    /\ net = [sock_ok |-> FALSE, pending |-> <<>>, open |-> {}]
    /\ obs = [session |-> 0, ticks |-> n, link_faults |-> 0, retries |-> 0,
              vtag |-> NoTag, ctag |-> NoTag,
              fault_open |-> FALSE, fault_by |-> "none",
              neutral_since |-> FALSE,
              closes |-> 0, bad_close |-> FALSE, failed |-> "none",
              lost_by_comm |-> 0,
              triggers |-> 0]

ClientInit == ClientStart(0)

\* a fault raised without connection_lost = 1
RaiseFault_FlagOnly(t) ==
    /\ connection_lost' = connection_lost
    /\ obs' = IF connection_established = 1
              THEN [obs EXCEPT !.fault_open = TRUE, !.fault_by = t]
              ELSE obs

\* connection_lost = 1 as written by thread t: a fault is raised when the
\* flag goes from 0 to 1 while the session is Connected
RaiseFault(t) ==
    /\ connection_lost' = 1
    /\ obs' = IF connection_lost = 0 /\ connection_established = 1
              THEN [obs EXCEPT !.fault_open = TRUE, !.fault_by = t,
                               !.neutral_since = FALSE,
                               !.triggers = IF @ < 2 THEN @ + 1 ELSE @,
                               !.lost_by_comm = IF t = "comm"
                                                THEN obs.session ELSE @]
              ELSE [obs EXCEPT !.triggers = IF @ < 2 THEN @ + 1 ELSE @,
                               !.lost_by_comm = IF t = "comm"
                                                THEN obs.session ELSE @]

\* the handle of the session's connection: the connected socket of the
\* client, the accepted socket of the server (its listening socket is 0)
SessionHandle == IF unit = "app-client.c" THEN 0 ELSE 1

SocketIsOpen_Always(h) == h >= -1

\* if (client_socket >= 0), if (server_socket >= 0)
SocketIsOpen(h) == h >= 0

NetAfterClose_Leak(h) ==
    [net EXCEPT !.sock_ok = IF h = SessionHandle THEN FALSE ELSE @]

\* close(h): the handle is released; closing the session's socket ends the
\* connection
NetAfterClose(h) ==
    [net EXCEPT !.open = @ \ {h},
                !.sock_ok = IF h = SessionHandle THEN FALSE ELSE @]

\* what close(h) adds to the record of the run: the number of close() calls
\* on the socket of the session (sess: the handle is that of a session that
\* was established), and whether a released handle was closed
ObsAfterClose(h, sess) ==
    [obs EXCEPT !.closes = IF sess /\ @ < 2 THEN @ + 1 ELSE @,
                !.bad_close = @ \/ h \notin net.open]

\* Peripheral_PWM_ActuateMotor(vel)
ActuateMotor(vel) == motor' = [motor EXCEPT !.pwm = vel]

Client_FaultNext_NeutralAfterTeardown(l) ==
    CASE l = "m_check_lost" -> "m_stop_timer"
      [] l = "m_stop_timer" -> "m_close"
      [] l = "m_close" -> "m_clear_est"
      [] l = "m_clear_est" -> "m_neutral"
      [] l = "m_neutral" -> "m_disable"
      [] l = "m_disable" -> "m_clear_lost"
      [] l = "m_clear_lost" -> "m_reset"
      [] l = "m_reset" -> "m_delay"
      [] OTHER -> "m_check_est"

Client_FaultNext_SkipClose(l) ==
    CASE l = "m_check_lost" -> "m_neutral"
      [] l = "m_neutral" -> "m_disable"
      [] l = "m_disable" -> "m_stop_timer"
      [] l = "m_stop_timer" -> "m_clear_est"
      [] l = "m_close" -> "m_clear_est"
      [] l = "m_clear_est" -> "m_clear_lost"
      [] l = "m_clear_lost" -> "m_reset"
      [] l = "m_reset" -> "m_delay"
      [] OTHER -> "m_check_est"

\* the order of the statements of if (connection_lost) { ... }
Client_FaultNext(l) ==
    CASE l = "m_check_lost" -> "m_neutral"
      [] l = "m_neutral" -> "m_disable"
      [] l = "m_disable" -> "m_stop_timer"
      [] l = "m_stop_timer" -> "m_close"
      [] l = "m_close" -> "m_clear_est"
      [] l = "m_clear_est" -> "m_clear_lost"
      [] l = "m_clear_lost" -> "m_reset"
      [] l = "m_reset" -> "m_delay"
      [] OTHER -> "m_check_est"

modelVars == <<ctrlVars, estVars, kernelVars>>

\* if (connection_lost) {
CM_CheckLost ==
    /\ At("main", "m_check_lost")
    /\ Goto("main", IF connection_lost = 1 THEN Client_FaultNext("m_check_lost")
                    ELSE "m_check_est")
    /\ UNCHANGED <<modelVars, connVars, dataVars, timerVars, tflags, locals,
                   envVars>>

\* Peripheral_PWM_ActuateMotor(0);
CM_Neutral ==
    /\ At("main", "m_neutral")
    /\ ActuateMotor(W(0))
    /\ obs' = [obs EXCEPT !.neutral_since = TRUE]
    /\ Goto("main", Client_FaultNext("m_neutral"))
    /\ UNCHANGED <<modelVars, connVars, dataVars, timerVars, tflags, locals,
                   clock, net>>

\* Peripheral_GPIO_DisableMotor();
CM_Disable ==
    /\ At("main", "m_disable")
    /\ motor' = [motor EXCEPT !.enabled = FALSE]
    /\ Goto("main", Client_FaultNext("m_disable"))
    /\ UNCHANGED <<modelVars, connVars, dataVars, timerVars, tflags, locals,
                   clock, net, obs>>

\* osTimerStop(timer_ctrl);
CM_StopTimer ==
    /\ At("main", "m_stop_timer")
    /\ timer_ctrl' = FALSE
    /\ Goto("main", Client_FaultNext("m_stop_timer"))
    /\ UNCHANGED <<modelVars, connVars, dataVars, timer_ref, tflags, locals,
                   envVars>>

\* if (client_socket >= 0) { close(client_socket); client_socket = -1; }
CM_Close ==
    /\ At("main", "m_close")
    /\ IF SocketIsOpen(client_socket)
       THEN /\ client_socket' = -1
            /\ net' = NetAfterClose(client_socket)
            /\ obs' = ObsAfterClose(client_socket, TRUE)
       ELSE UNCHANGED <<client_socket, net, obs>>
    /\ Goto("main", Client_FaultNext("m_close"))
    /\ UNCHANGED <<modelVars, connection_established, connection_lost,
                   server_socket, dataVars, timerVars, tflags, locals,
                   motor, clock>>

\* connection_established = 0;
CM_ClearEstablished ==
    /\ At("main", "m_clear_est")
    /\ connection_established' = 0
    /\ Goto("main", Client_FaultNext("m_clear_est"))
    /\ UNCHANGED <<modelVars, connection_lost, client_socket, server_socket,
                   dataVars, timerVars, tflags, locals, envVars>>

\* connection_lost = 0;
CM_ClearLost ==
    /\ At("main", "m_clear_lost")
    /\ connection_lost' = 0
    /\ Goto("main", Client_FaultNext("m_clear_lost"))
    /\ UNCHANGED <<modelVars, connection_established, client_socket,
                   server_socket, dataVars, timerVars, tflags, locals,
                   envVars>>

\* Controller_Reset();   (fault handling, app-client.c:120)
CM_Reset ==
    /\ At("main", "m_reset")
    /\ \E r \in {Controller_Reset(CtrlState)} :
          /\ integrator' = r.integrator
          /\ time_prev' = r.time_prev
          /\ first_call_after_reset' = r.first_call_after_reset
    /\ obs' = [obs EXCEPT !.fault_open = FALSE]
    /\ Goto("main", Client_FaultNext("m_reset"))
    /\ UNCHANGED <<estVars, kernelVars, connVars, dataVars, timerVars, tflags,
                   locals, motor, clock, net>>

\* osDelay(1000);
CM_Delay ==
    /\ At("main", "m_delay")
    /\ DelayOver
    /\ clock' = clock + 1000
    /\ Goto("main", Client_FaultNext("m_delay"))
    /\ UNCHANGED <<modelVars, connVars, dataVars, timerVars, tflags, locals,
                   motor, net, obs>>

\* if (!connection_established) { ... } else { osThreadFlagsWait(...) }
CM_CheckEstablished ==
    /\ At("main", "m_check_est")
    /\ Goto("main", IF connection_established = 0 THEN "m_socket"
                    ELSE "m_wait_disc")
    /\ UNCHANGED <<modelVars, connVars, dataVars, timerVars, tflags, locals,
                   envVars>>

\* client_socket = socket(AF_INET, SOCK_STREAM, 0);  if (client_socket >= 0)
CM_Socket ==
    /\ At("main", "m_socket")
    /\ \/ /\ client_socket' = 0
          /\ Goto("main", "m_connect")
          /\ net' = [net EXCEPT !.open = @ \cup {0}]
          /\ obs' = obs
       \/ /\ obs.retries < MaxRetries
          /\ client_socket' = -1
          /\ Goto("main", "m_retry_delay")
          /\ net' = net
          /\ obs' = [obs EXCEPT !.retries = @ + 1, !.failed = "socket"]
    /\ UNCHANGED <<modelVars, connection_established, connection_lost,
                   server_socket, dataVars, timerVars, tflags, locals,
                   motor, clock>>

\* if (connect(client_socket, ...) == 0)
CM_Connect ==
    /\ At("main", "m_connect")
    /\ \/ /\ obs.session < MaxSessions
          /\ net' = [net EXCEPT !.sock_ok = TRUE, !.pending = <<>>]
          /\ obs' = [obs EXCEPT !.session = @ + 1, !.closes = 0,
                                !.triggers = 0, !.failed = "none"]
          /\ Goto("main", "m_set_est")
       \/ /\ obs.retries < MaxRetries
          /\ net' = net
          /\ obs' = [obs EXCEPT !.retries = @ + 1, !.failed = "connect"]
          /\ Goto("main", "m_close_failed")
    /\ UNCHANGED <<modelVars, connVars, dataVars, timerVars, tflags, locals,
                   motor, clock>>

\* connection_established = 1;
CM_SetEstablished ==
    /\ At("main", "m_set_est")
    /\ connection_established' = 1
    /\ Goto("main", "m_set_lost0")
    /\ UNCHANGED <<modelVars, connection_lost, client_socket, server_socket,
                   dataVars, timerVars, tflags, locals, envVars>>

\* connection_lost = 0;   (on connect, app-client.c:145)
CM_SetLost0 ==
    /\ At("main", "m_set_lost0")
    /\ connection_lost' = 0
    /\ Goto("main", "m_reset_session")
    /\ UNCHANGED <<modelVars, connection_established, client_socket,
                   server_socket, dataVars, timerVars, tflags, locals,
                   envVars>>

\* Controller_Reset();   (new session, app-client.c:148)
CM_ResetSession ==
    /\ At("main", "m_reset_session")
    /\ \E r \in {Controller_Reset(CtrlState)} :
          /\ integrator' = r.integrator
          /\ time_prev' = r.time_prev
          /\ first_call_after_reset' = r.first_call_after_reset
    /\ Goto("main", "m_enable")
    /\ UNCHANGED <<estVars, kernelVars, connVars, dataVars, timerVars, tflags,
                   locals, envVars>>

\* Peripheral_GPIO_EnableMotor();
CM_EnableMotor ==
    /\ At("main", "m_enable")
    /\ motor' = [motor EXCEPT !.enabled = TRUE]
    /\ Goto("main", "m_start_timer")
    /\ UNCHANGED <<modelVars, connVars, dataVars, timerVars, tflags, locals,
                   clock, net, obs>>

\* osTimerStart(timer_ctrl, PERIOD_CTRL);
CM_StartTimer ==
    /\ At("main", "m_start_timer")
    /\ timer_ctrl' = TRUE
    /\ Goto("main", "m_signal")
    /\ UNCHANGED <<modelVars, connVars, dataVars, timer_ref, tflags, locals,
                   envVars>>

\* osThreadFlagsSet(tid_app_comm, FLAG_connected);
CM_SignalComm ==
    /\ At("main", "m_signal")
    /\ osThreadFlagsSet("comm", "connected")
    /\ Goto("main", "m_check_lost")
    /\ UNCHANGED <<modelVars, connVars, dataVars, timerVars, locals, envVars>>

\* close(client_socket); client_socket = -1;   (connect failed)
CM_CloseFailed ==
    /\ At("main", "m_close_failed")
    /\ client_socket' = -1
    /\ net' = NetAfterClose(client_socket)
    /\ obs' = ObsAfterClose(client_socket, FALSE)
    /\ Goto("main", "m_retry_delay")
    /\ UNCHANGED <<modelVars, connection_established, connection_lost,
                   server_socket, dataVars, timerVars, tflags, locals,
                   motor, clock>>

\* osDelay(500);
CM_RetryDelay ==
    /\ At("main", "m_retry_delay")
    /\ DelayOver
    /\ clock' = clock + 500
    /\ obs' = [obs EXCEPT !.failed = "none"]
    /\ Goto("main", "m_check_lost")
    /\ UNCHANGED <<modelVars, connVars, dataVars, timerVars, tflags, locals,
                   motor, net>>

\* osThreadFlagsWait(FLAG_disconnected, osFlagsWaitAny, osWaitForever);
CM_WaitDisconnected ==
    /\ At("main", "m_wait_disc")
    /\ "disconnected" \in tflags["main"]
    /\ tflags' = [tflags EXCEPT !["main"] = @ \ {"disconnected"}]
    /\ Goto("main", "m_check_lost")
    /\ UNCHANGED <<modelVars, connVars, dataVars, timerVars, locals, envVars>>

\* osThreadFlagsWait(FLAG_periodic, osFlagsWaitAll, osWaitForever);
CK_WaitPeriodic ==
    /\ At("ctrl", "k_wait_periodic")
    /\ "periodic" \in tflags["ctrl"]
    /\ tflags' = [tflags EXCEPT !["ctrl"] = @ \ {"periodic"}]
    /\ Goto("ctrl", "k_check")
    /\ UNCHANGED <<modelVars, connVars, dataVars, timerVars, locals, envVars>>

\* if (!connection_established || connection_lost) continue;
CK_Check ==
    /\ At("ctrl", "k_check")
    /\ Goto("ctrl", IF connection_established = 0 \/ connection_lost = 1
                    THEN "k_wait_periodic" ELSE "k_measure")
    /\ UNCHANGED <<modelVars, connVars, dataVars, timerVars, tflags, locals,
                   envVars>>

\* millisec = Main_GetTickMillisec();
\* velocity = Peripheral_Encoder_CalculateVelocity(millisec);
\* osThreadFlagsSet(tid_app_comm, FLAG_data_ready);
CK_Measure ==
    /\ At("ctrl", "k_measure")
    /\ \E d \in ClientDisplacements :
          \E r \in {Peripheral_Encoder_CalculateVelocity(
                       [EstState EXCEPT
                          !.TIM1_CNT = (TIM1_CNT + d + 65536) % 65536],
                       W(clock))} :
              /\ last_ms' = r.last_ms
              /\ rpm_filt' = r.rpm_filt
              /\ vel_initialized' = r.vel_initialized
              /\ encoder' = r.encoder
              /\ TIM1_CNT' = r.TIM1_CNT
              /\ velocity' = W(r.ret)
    /\ millisec' = W(clock)
    /\ obs' = [obs EXCEPT !.vtag = [s |-> obs.session, n |-> obs.ticks]]
    /\ osThreadFlagsSet("comm", "data_ready")
    /\ Goto("ctrl", "k_wait_ctrl")
    /\ UNCHANGED <<ctrlVars, kernelVars, encoder_prev, time_prev_enc,
                   first_call, connVars, reference, control, timerVars,
                   locals, motor, clock, net>>

\* uint32_t flags = osThreadFlagsWait(FLAG_control_received, osFlagsWaitAny,
\*                                    PERIOD_CTRL * 2);
CK_WaitControl ==
    /\ At("ctrl", "k_wait_ctrl")
    /\ \/ /\ "control_received" \in tflags["ctrl"]
          /\ tflags' = [tflags EXCEPT !["ctrl"] = @ \ {"control_received"}]
          /\ locals' = [locals EXCEPT !.ctrl_flags = {"control_received"},
                                      !.ctrl_timeout = FALSE]
       \/ /\ "control_received" \notin tflags["ctrl"]
          /\ \E f \in TimeoutReturns :
                locals' = [locals EXCEPT !.ctrl_flags = f,
                                         !.ctrl_timeout = TRUE]
          /\ tflags' = tflags
    /\ Goto("ctrl", "k_test")
    /\ UNCHANGED <<modelVars, connVars, dataVars, timerVars, envVars>>

\* if (!(flags & FLAG_control_received) || connection_lost) { ... }
CK_Test ==
    /\ At("ctrl", "k_test")
    /\ Goto("ctrl", IF "control_received" \notin locals.ctrl_flags
                       \/ connection_lost = 1
                    THEN "k_neutral" ELSE "k_apply")
    /\ locals' = [locals EXCEPT !.ctrl_flags = {}]
    /\ UNCHANGED <<modelVars, connVars, dataVars, timerVars, tflags, envVars>>

\* Peripheral_PWM_ActuateMotor(0);
CK_Neutral ==
    /\ At("ctrl", "k_neutral")
    /\ ActuateMotor(W(0))
    /\ obs' = [obs EXCEPT !.neutral_since = TRUE]
    /\ Goto("ctrl", "k_set_lost")
    /\ UNCHANGED <<modelVars, connVars, dataVars, timerVars, tflags, locals,
                   clock, net>>

\* connection_lost = 1;
CK_SetLost ==
    /\ At("ctrl", "k_set_lost")
    /\ RaiseFault("ctrl")
    /\ Goto("ctrl", "k_signal_main")
    /\ UNCHANGED <<modelVars, connection_established, client_socket,
                   server_socket, dataVars, timerVars, tflags, locals,
                   motor, clock, net>>

\* osThreadFlagsSet(tid_app_main, FLAG_disconnected); continue;
CK_SignalMain ==
    /\ At("ctrl", "k_signal_main")
    /\ osThreadFlagsSet("main", "disconnected")
    /\ locals' = [locals EXCEPT !.ctrl_timeout = FALSE]
    /\ Goto("ctrl", "k_wait_periodic")
    /\ UNCHANGED <<modelVars, connVars, dataVars, timerVars, envVars>>

K_Command_Local(st, ref, meas, ms, ctl) ==
    Controller_PIController(st, ref, meas, ms)

\* the command app_ctrl applies and the controller state it leaves: with
\* _ETHERNET_ENABLED the shared control as received, the controller
\* untouched (line 234); without it the controller would be run here
\* (line 239)
K_Command(st, ref, meas, ms, ctl) ==
    [integrator |-> st.integrator, time_prev |-> st.time_prev,
     first_call_after_reset |-> st.first_call_after_reset, ret |-> ctl]

\* Peripheral_PWM_ActuateMotor(control);
CK_Apply ==
    /\ At("ctrl", "k_apply")
    /\ \E r \in {K_Command(CtrlState, reference, velocity, millisec,
                            control)} :
          /\ integrator' = r.integrator
          /\ time_prev' = r.time_prev
          /\ first_call_after_reset' = r.first_call_after_reset
          /\ control' = r.ret
          /\ ActuateMotor(r.ret)
          /\ obs' = [obs EXCEPT !.neutral_since = @ \/ r.ret = W(0)]
    /\ locals' = [locals EXCEPT !.ctrl_timeout = FALSE]
    /\ Goto("ctrl", "k_wait_periodic")
    /\ UNCHANGED <<estVars, kernelVars, connVars, reference, velocity,
                   millisec, timerVars, tflags, clock, net>>

\* osThreadFlagsWait(FLAG_connected, osFlagsWaitAny, osWaitForever);
CC_WaitConnected ==
    /\ At("comm", "c_wait_conn")
    /\ "connected" \in tflags["comm"]
    /\ tflags' = [tflags EXCEPT !["comm"] = @ \ {"connected"}]
    /\ Goto("comm", "c_loop")
    /\ UNCHANGED <<modelVars, connVars, dataVars, timerVars, locals, envVars>>

\* while (connection_established && !connection_lost) {
CC_Loop ==
    /\ At("comm", "c_loop")
    /\ Goto("comm", IF connection_established = 1 /\ connection_lost = 0
                    THEN "c_status" ELSE "c_wait_conn")
    /\ UNCHANGED <<modelVars, connVars, dataVars, timerVars, tflags, locals,
                   envVars>>

\* socket_status = getsockopt(client_socket, SO_STATUS, NULL);
\* if (socket_status != SOCK_ESTABLISHED) { ... break; }
CC_Status ==
    /\ At("comm", "c_status")
    /\ IF client_socket >= 0 /\ net.sock_ok
       THEN Goto("comm", "c_wait_data") /\ locals' = locals
       ELSE Goto("comm", "c_fault") /\ CommEvent("status")
    /\ UNCHANGED <<modelVars, connVars, dataVars, timerVars, tflags,
                   envVars>>

\* flags = osThreadFlagsWait(FLAG_data_ready, osFlagsWaitAny, PERIOD_CTRL * 2);
\* if (!(flags & FLAG_data_ready)) { ... break; }
CC_WaitData ==
    /\ At("comm", "c_wait_data")
    /\ \/ /\ "data_ready" \in tflags["comm"]
          /\ tflags' = [tflags EXCEPT !["comm"] = @ \ {"data_ready"}]
          /\ Goto("comm", "c_send")
          /\ locals' = locals
       \/ /\ "data_ready" \notin tflags["comm"]
          /\ tflags' = tflags
          /\ CommEvent("timeout")
          /\ \E f \in TimeoutReturns :
                Goto("comm", IF "data_ready" \in f THEN "c_send"
                             ELSE "c_fault")
    /\ UNCHANGED <<modelVars, connVars, dataVars, timerVars, envVars>>

CC_SendNext_NoRecv(sent) == IF sent THEN "c_loop" ELSE "c_fault"

\* if (bytes_sent != sizeof(ClientData_t)) { ... break; }  else recv(...)
CC_SendNext(sent) == IF sent THEN "c_recv" ELSE "c_fault"

\* tx_data.velocity = velocity; tx_data.timestamp = millisec;
\* bytes_sent = send(client_socket, &tx_data, sizeof(ClientData_t), 0);
CC_Send ==
    /\ At("comm", "c_send")
    /\ \E n \in {Failed} \cup ShortCounts(SizeofClientData)
                       \cup {SizeofClientData} :
          \/ /\ n = SizeofClientData
             /\ client_socket >= 0 /\ net.sock_ok
             /\ net' = [net EXCEPT !.pending = Append(@, obs.vtag)]
             /\ UNCHANGED <<locals, obs>>
             /\ Goto("comm", CC_SendNext(n = SizeofClientData))
          \/ /\ n \in ShortCounts(SizeofClientData)
             /\ client_socket >= 0 /\ net.sock_ok
             /\ obs.link_faults < MaxLinkFaults
             /\ obs' = [obs EXCEPT !.link_faults = @ + 1]
             /\ net' = net
             /\ CommEvent("send")
             /\ Goto("comm", CC_SendNext(n = SizeofClientData))
          \/ /\ n = Failed
             /\ client_socket < 0 \/ ~net.sock_ok
             /\ UNCHANGED <<net, obs>>
             /\ CommEvent("send")
             /\ Goto("comm", CC_SendNext(n = SizeofClientData))
    /\ UNCHANGED <<modelVars, connVars, dataVars, timerVars, tflags, motor,
                   clock>>

CC_RecvNext_AnyData(n) == IF n <= 0 THEN "c_fault" ELSE "c_update"

\* if (bytes_received != sizeof(ServerData_t)) { ... break; }
CC_RecvNext(n) == IF n # SizeofServerData THEN "c_fault" ELSE "c_update"

\* bytes_received = recv(client_socket, &rx_data, sizeof(ServerData_t), 0);
\* the peer answers the oldest unanswered measurement; the call returns the
\* whole record, a part of it, or fails
CC_Recv ==
    /\ At("comm", "c_recv")
    /\ \E n \in {Failed} \cup ShortCounts(SizeofServerData)
                       \cup {SizeofServerData} :
          \/ /\ n = SizeofServerData
             /\ client_socket >= 0 /\ net.sock_ok /\ net.pending # <<>>
             /\ \E c \in Commands :
                   locals' = [locals EXCEPT
                                !.rx_data = [control |-> c,
                                             tag |-> Head(net.pending)]]
             /\ net' = [net EXCEPT !.pending = Tail(@)]
             /\ obs' = obs
             /\ Goto("comm", CC_RecvNext(n))
          \/ /\ n \in ShortCounts(SizeofServerData)
             /\ client_socket >= 0 /\ net.sock_ok /\ net.pending # <<>>
             /\ obs.link_faults < MaxLinkFaults
             /\ obs' = [obs EXCEPT !.link_faults = @ + 1]
             /\ locals' = [locals EXCEPT
                             !.rx_data = [control |-> W(640000000),
                                          tag |-> Head(net.pending)],
                             !.comm_event = "recv"]
             /\ net' = net
             /\ Goto("comm", CC_RecvNext(n))
          \/ /\ n = Failed
             /\ client_socket < 0 \/ ~net.sock_ok
             /\ UNCHANGED <<net, obs>>
             /\ CommEvent("recv")
             /\ Goto("comm", CC_RecvNext(n))
    /\ UNCHANGED <<modelVars, connVars, dataVars, timerVars, tflags, motor,
                   clock>>

\* control = rx_data.control;
CC_Update ==
    /\ At("comm", "c_update")
    /\ control' = locals.rx_data.control
    /\ obs' = [obs EXCEPT !.ctag = locals.rx_data.tag]
    /\ locals' = [locals EXCEPT
                    !.comm_event = "none",
                    !.rx_data = [control |-> W(0), tag |-> NoTag]]
    /\ Goto("comm", "c_signal_ctrl")
    /\ UNCHANGED <<modelVars, connVars, reference, velocity, millisec,
                   timerVars, tflags, motor, clock, net>>

\* osThreadFlagsSet(tid_app_ctrl, FLAG_control_received);
CC_SignalCtrl ==
    /\ At("comm", "c_signal_ctrl")
    /\ osThreadFlagsSet("ctrl", "control_received")
    /\ Goto("comm", "c_loop")
    /\ UNCHANGED <<modelVars, connVars, dataVars, timerVars, locals, envVars>>

\* connection_lost = 1;
CC_Fault ==
    /\ At("comm", "c_fault")
    /\ RaiseFault("comm")
    /\ Goto("comm", "c_fault_signal")
    /\ UNCHANGED <<modelVars, connection_established, client_socket,
                   server_socket, dataVars, timerVars, tflags, locals,
                   motor, clock, net>>

\* osThreadFlagsSet(tid_app_main, FLAG_disconnected); break;
CC_FaultSignal ==
    /\ At("comm", "c_fault_signal")
    /\ osThreadFlagsSet("main", "disconnected")
    /\ locals' = [locals EXCEPT
                    !.comm_event = "none",
                    !.rx_data = [control |-> W(0), tag |-> NoTag]]
    /\ Goto("comm", "c_wait_conn")
    /\ UNCHANGED <<modelVars, connVars, dataVars, timerVars, envVars>>

\* static void Timer_Callback(void *argument): one period of timer_ctrl
C_Timer_Callback ==
    /\ unit = "app-client.c"
    /\ timer_ctrl
    /\ obs.ticks < MaxTicks
    /\ osThreadFlagsSet("ctrl", "periodic")
    /\ clock' = clock + PERIOD_CTRL
    /\ obs' = [obs EXCEPT !.ticks = @ + 1]
    /\ UNCHANGED <<modelVars, connVars, dataVars, timerVars, pc, locals,
                   motor, net>>

\* the transport fails: the session's socket is no longer established
C_LinkDown ==
    /\ unit = "app-client.c"
    /\ net.sock_ok
    /\ obs.link_faults < MaxLinkFaults
    /\ net' = [net EXCEPT !.sock_ok = FALSE]
    /\ obs' = [obs EXCEPT !.link_faults = @ + 1]
    /\ UNCHANGED <<modelVars, connVars, dataVars, timerVars, thrVars, motor,
                   clock>>

ClientNext ==
    \/ CM_CheckLost \/ CM_Neutral \/ CM_Disable \/ CM_StopTimer \/ CM_Close
    \/ CM_ClearEstablished \/ CM_ClearLost \/ CM_Reset \/ CM_Delay
    \/ CM_CheckEstablished \/ CM_Socket \/ CM_Connect \/ CM_SetEstablished
    \/ CM_SetLost0 \/ CM_ResetSession \/ CM_EnableMotor \/ CM_StartTimer
    \/ CM_SignalComm \/ CM_CloseFailed \/ CM_RetryDelay \/ CM_WaitDisconnected
    \/ CK_WaitPeriodic \/ CK_Check \/ CK_Measure \/ CK_WaitControl \/ CK_Test
    \/ CK_Neutral \/ CK_SetLost \/ CK_SignalMain \/ CK_Apply
    \/ CC_WaitConnected \/ CC_Loop \/ CC_Status \/ CC_WaitData \/ CC_Send
    \/ CC_Recv \/ CC_Update \/ CC_SignalCtrl \/ CC_Fault \/ CC_FaultSignal
    \/ C_Timer_Callback \/ C_LinkDown

SpecClient == ClientInit /\ [][ClientNext]_vars

(***************************************************************************)
(* Claims about the client (SpecClient).                                   *)
(***************************************************************************)
\* C1: for every fault raised while Connected, the actuator has received the
\* neutral command Peripheral_PWM_ActuateMotor(0) before app_main stops the
\* control timer, closes the socket or clears connection_established.
C1_NeutralBeforeTeardown ==
    (unit = "app-client.c" /\ obs.fault_open
       /\ pc["main"] \in {"m_stop_timer", "m_close", "m_clear_est"})
        => obs.neutral_since

C1_Witness ==
    /\ unit = "app-client.c" /\ obs.fault_open /\ obs.fault_by = "comm"
    /\ pc["main"] = "m_clear_est" /\ obs.neutral_since
    /\ ~timer_ctrl /\ client_socket = -1 /\ motor.pwm = W(0)

\* C2: every nonzero value app_ctrl passes to Peripheral_PWM_ActuateMotor is
\* the command received in answer to the measurement produced in that same
\* tick of the current session.
C2_NoStaleCommand ==
    (unit = "app-client.c" /\ pc["ctrl"] = "k_apply" /\ control # W(0))
        => obs.ctag = obs.vtag

(***************************************************************************)
(* Server, src/EmbeddedMF2103/Source/app-server.c                          *)
(***************************************************************************)
MaxMessages == 3

\* one more event of a kind the run counts (the peer sends MaxMessages)
Tally(n) == IF n <= MaxMessages THEN n + 1 ELSE n

\* the velocities the peer reports; its timestamps advance by PERIOD_CTRL
PeerVelocities == {W(0), W(2500)}

\* the state after Application_Setup, with n messages of the peer counted so
\* far
\* the last MeasurementMessage received whole (counted from 1 over all
\* sessions) and the last Controller_PIController invocation: the message and
\* session it ran for, the inputs it read and the value it returned
NoMessage == [id |-> 0, s |-> 0, velocity |-> W(0), timestamp |-> W(0)]

NoCommand ==
    [id |-> 0, s |-> 0, velocity |-> W(0), millisec |-> W(0), out |-> W(0)]

ServerStart(n) ==
    /\ unit = "app-server.c"
    /\ CtrlInit
    /\ EstInit
    /\ TIM1_CNT = 0
    /\ calls = 0
    /\ disp = 0
    /\ hist = NoHist
    /\ connection_established = 0
    /\ connection_lost = 0
    /\ client_socket = -1
    /\ server_socket = -1
    /\ reference = W(2000)
    /\ velocity = W(0)
    /\ control = W(0)
    /\ millisec = W(0)
    /\ timer_ctrl = FALSE
    /\ timer_ref = FALSE
    /\ pc = [main |-> "sm_check_lost", ctrl |-> "sk_wait_data",
             comm |-> "sc_wait_conn", ref |-> "sr_wait_periodic"]
    /\ tflags = [t \in Threads |-> {}]
    /\ locals = [comm_event |-> "none",
                 rx_data |-> [velocity |-> W(0), timestamp |-> W(0)]]
    /\ motor = [enabled |-> FALSE, pwm |-> W(0)]
    /\ clock = 0
    /\ net = [sock_ok |-> FALSE, inbox |-> <<>>, peer_ms |-> 0,
              sent |-> W(0), open |-> {}]
    /\ obs = [session |-> 0, retries |-> 0, link_faults |-> 0, msgs |-> n,
              sess_calls |-> 0, accumulated |-> W(0), path |-> "none",
              fault_open |-> FALSE, fault_by |-> "none",
              neutral_since |-> FALSE,
              closes |-> 0, bad_close |-> FALSE, failed |-> "none",
              lost_by_comm |-> 0,
              triggers |-> 0, unanswered |-> 0,
              recvd |-> 0, computed |-> 0, sent |-> 0,
              rx |-> NoMessage, cmd |-> NoCommand]

ServerInit == ServerStart(0)

\* if (connection_lost) {
SM_CheckLost ==
    /\ At("main", "sm_check_lost")
    /\ Goto("main", IF connection_lost = 1 THEN "sm_stop_ctrl"
                    ELSE "sm_check_est")
    /\ UNCHANGED <<modelVars, connVars, dataVars, timerVars, tflags, locals,
                   envVars>>

\* osTimerStop(timer_ctrl);
SM_StopCtrlTimer ==
    /\ At("main", "sm_stop_ctrl")
    /\ timer_ctrl' = FALSE
    /\ Goto("main", "sm_stop_ref")
    /\ UNCHANGED <<modelVars, connVars, dataVars, timer_ref, tflags, locals,
                   envVars>>

\* osTimerStop(timer_ref);
SM_StopRefTimer ==
    /\ At("main", "sm_stop_ref")
    /\ timer_ref' = FALSE
    /\ Goto("main", "sm_close_client")
    /\ UNCHANGED <<modelVars, connVars, dataVars, timer_ctrl, tflags, locals,
                   envVars>>

\* if (client_socket >= 0) { close(client_socket); client_socket = -1; }
SM_CloseClient ==
    /\ At("main", "sm_close_client")
    /\ IF SocketIsOpen(client_socket)
       THEN /\ client_socket' = -1
            /\ net' = NetAfterClose(client_socket)
            /\ obs' = ObsAfterClose(client_socket, TRUE)
       ELSE UNCHANGED <<client_socket, net, obs>>
    /\ Goto("main", "sm_close_server")
    /\ UNCHANGED <<modelVars, connection_established, connection_lost,
                   server_socket, dataVars, timerVars, tflags, locals,
                   motor, clock>>

\* if (server_socket >= 0) { close(server_socket); server_socket = -1; }
SM_CloseServer ==
    /\ At("main", "sm_close_server")
    /\ IF SocketIsOpen(server_socket)
       THEN /\ server_socket' = -1
            /\ net' = NetAfterClose(server_socket)
            /\ obs' = ObsAfterClose(server_socket, FALSE)
       ELSE UNCHANGED <<server_socket, net, obs>>
    /\ Goto("main", "sm_clear_est")
    /\ UNCHANGED <<modelVars, connection_established, connection_lost,
                   client_socket, dataVars, timerVars, tflags, locals,
                   motor, clock>>

\* connection_established = 0;
SM_ClearEstablished ==
    /\ At("main", "sm_clear_est")
    /\ connection_established' = 0
    /\ Goto("main", "sm_clear_lost")
    /\ UNCHANGED <<modelVars, connection_lost, client_socket, server_socket,
                   dataVars, timerVars, tflags, locals, envVars>>

\* connection_lost = 0;
SM_ClearLost ==
    /\ At("main", "sm_clear_lost")
    /\ connection_lost' = 0
    /\ Goto("main", "sm_reset")
    /\ UNCHANGED <<modelVars, connection_established, client_socket,
                   server_socket, dataVars, timerVars, tflags, locals,
                   envVars>>

\* Controller_Reset();   (fault handling, app-server.c:125)
SM_Reset ==
    /\ At("main", "sm_reset")
    /\ \E r \in {Controller_Reset(CtrlState)} :
          /\ integrator' = r.integrator
          /\ time_prev' = r.time_prev
          /\ first_call_after_reset' = r.first_call_after_reset
    /\ obs' = [obs EXCEPT !.accumulated = integrator, !.fault_open = FALSE]
    /\ Goto("main", "sm_delay")
    /\ UNCHANGED <<estVars, kernelVars, connVars, dataVars, timerVars, tflags,
                   locals, motor, clock, net>>

\* osDelay(1000);
SM_Delay ==
    /\ At("main", "sm_delay")
    /\ DelayOver
    /\ clock' = clock + 1000
    /\ Goto("main", "sm_check_est")
    /\ UNCHANGED <<modelVars, connVars, dataVars, timerVars, tflags, locals,
                   motor, net, obs>>

\* if (!connection_established) { ... } else { osThreadFlagsWait(...) }
SM_CheckEstablished ==
    /\ At("main", "sm_check_est")
    /\ Goto("main", IF connection_established = 0 THEN "sm_socket"
                    ELSE "sm_wait_disc")
    /\ UNCHANGED <<modelVars, connVars, dataVars, timerVars, tflags, locals,
                   envVars>>

\* server_socket = socket(AF_INET, SOCK_STREAM, 0);  if (server_socket >= 0)
SM_Socket ==
    /\ At("main", "sm_socket")
    /\ \/ /\ server_socket' = 0
          /\ Goto("main", "sm_bind")
          /\ net' = [net EXCEPT !.open = @ \cup {0}]
          /\ obs' = obs
       \/ /\ obs.retries < MaxRetries
          /\ server_socket' = -1
          /\ Goto("main", "sm_retry_delay")
          /\ net' = net
          /\ obs' = [obs EXCEPT !.retries = @ + 1, !.failed = "socket"]
    /\ UNCHANGED <<modelVars, connection_established, connection_lost,
                   client_socket, dataVars, timerVars, tflags, locals,
                   motor, clock>>

\* if (bind(server_socket, ...) == 0)
SM_Bind ==
    /\ At("main", "sm_bind")
    /\ \/ /\ Goto("main", "sm_listen")
          /\ obs' = obs
       \/ /\ obs.retries < MaxRetries
          /\ Goto("main", "sm_close_failed")
          /\ obs' = [obs EXCEPT !.retries = @ + 1, !.failed = "bind"]
    /\ UNCHANGED <<modelVars, connVars, dataVars, timerVars, tflags, locals,
                   motor, clock, net>>

\* if (listen(server_socket, 1) == 0)
SM_Listen ==
    /\ At("main", "sm_listen")
    /\ \/ /\ Goto("main", "sm_accept")
          /\ obs' = obs
       \/ /\ obs.retries < MaxRetries
          /\ Goto("main", "sm_close_failed")
          /\ obs' = [obs EXCEPT !.retries = @ + 1, !.failed = "listen"]
    /\ UNCHANGED <<modelVars, connVars, dataVars, timerVars, tflags, locals,
                   motor, clock, net>>

\* client_socket = accept(server_socket, ...);  if (client_socket >= 0)
SM_Accept ==
    /\ At("main", "sm_accept")
    /\ \/ /\ obs.session < MaxSessions
          /\ client_socket' = 1
          /\ net' = [net EXCEPT !.sock_ok = TRUE, !.inbox = <<>>,
                                !.open = @ \cup {1}]
          /\ obs' = [obs EXCEPT !.session = @ + 1, !.closes = 0,
                                !.triggers = 0, !.failed = "none",
                                !.unanswered = 0]
          /\ Goto("main", "sm_set_est")
       \/ /\ obs.retries < MaxRetries
          /\ client_socket' = -1
          /\ net' = net
          /\ obs' = [obs EXCEPT !.retries = @ + 1, !.failed = "accept"]
          /\ Goto("main", "sm_close_failed")
    /\ UNCHANGED <<modelVars, connection_established, connection_lost,
                   server_socket, dataVars, timerVars, tflags, locals,
                   motor, clock>>

\* connection_established = 1;
SM_SetEstablished ==
    /\ At("main", "sm_set_est")
    /\ connection_established' = 1
    /\ obs' = [obs EXCEPT !.sess_calls = 0]
    /\ Goto("main", "sm_set_lost0")
    /\ UNCHANGED <<modelVars, connection_lost, client_socket, server_socket,
                   dataVars, timerVars, tflags, locals, motor, clock, net>>

\* connection_lost = 0;   (on accept, app-server.c:154)
SM_SetLost0 ==
    /\ At("main", "sm_set_lost0")
    /\ connection_lost' = 0
    /\ Goto("main", "sm_reset_session")
    /\ UNCHANGED <<modelVars, connection_established, client_socket,
                   server_socket, dataVars, timerVars, tflags, locals,
                   envVars>>

\* Controller_Reset();   (new session, app-server.c:157)
SM_ResetSession ==
    /\ At("main", "sm_reset_session")
    /\ \E r \in {Controller_Reset(CtrlState)} :
          /\ integrator' = r.integrator
          /\ time_prev' = r.time_prev
          /\ first_call_after_reset' = r.first_call_after_reset
    /\ Goto("main", "sm_start_ctrl")
    /\ UNCHANGED <<estVars, kernelVars, connVars, dataVars, timerVars, tflags,
                   locals, envVars>>

\* osTimerStart(timer_ctrl, PERIOD_CTRL);
SM_StartCtrlTimer ==
    /\ At("main", "sm_start_ctrl")
    /\ timer_ctrl' = TRUE
    /\ Goto("main", "sm_start_ref")
    /\ UNCHANGED <<modelVars, connVars, dataVars, timer_ref, tflags, locals,
                   envVars>>

\* osTimerStart(timer_ref, PERIOD_REF);
SM_StartRefTimer ==
    /\ At("main", "sm_start_ref")
    /\ timer_ref' = TRUE
    /\ Goto("main", "sm_signal")
    /\ UNCHANGED <<modelVars, connVars, dataVars, timer_ctrl, tflags, locals,
                   envVars>>

\* osThreadFlagsSet(tid_app_comm, FLAG_connected);
SM_SignalComm ==
    /\ At("main", "sm_signal")
    /\ osThreadFlagsSet("comm", "connected")
    /\ Goto("main", "sm_check_lost")
    /\ UNCHANGED <<modelVars, connVars, dataVars, timerVars, locals, envVars>>

\* close(server_socket); server_socket = -1;   (bind, listen or accept failed)
SM_CloseFailed ==
    /\ At("main", "sm_close_failed")
    /\ server_socket' = -1
    /\ net' = NetAfterClose(server_socket)
    /\ obs' = ObsAfterClose(server_socket, FALSE)
    /\ Goto("main", "sm_retry_delay")
    /\ UNCHANGED <<modelVars, connection_established, connection_lost,
                   client_socket, dataVars, timerVars, tflags, locals,
                   motor, clock>>

\* osDelay(500);
SM_RetryDelay ==
    /\ At("main", "sm_retry_delay")
    /\ DelayOver
    /\ clock' = clock + 500
    /\ obs' = [obs EXCEPT !.failed = "none"]
    /\ Goto("main", "sm_check_lost")
    /\ UNCHANGED <<modelVars, connVars, dataVars, timerVars, tflags, locals,
                   motor, net>>

\* osThreadFlagsWait(FLAG_disconnected, osFlagsWaitAny, osWaitForever);
SM_WaitDisconnected ==
    /\ At("main", "sm_wait_disc")
    /\ "disconnected" \in tflags["main"]
    /\ tflags' = [tflags EXCEPT !["main"] = @ \ {"disconnected"}]
    /\ Goto("main", "sm_check_lost")
    /\ UNCHANGED <<modelVars, connVars, dataVars, timerVars, locals, envVars>>

\* flags = osThreadFlagsWait(FLAG_new_data, osFlagsWaitAny, osWaitForever);
\* if (!(flags & FLAG_new_data)) continue;
SK_WaitData ==
    /\ At("ctrl", "sk_wait_data")
    /\ FlagWaits.sk_wait_data \in tflags["ctrl"]
    /\ tflags' = [tflags EXCEPT !["ctrl"] = @ \ {FlagWaits.sk_wait_data}]
    /\ Goto("ctrl", "sk_check")
    /\ UNCHANGED <<modelVars, connVars, dataVars, timerVars, locals, envVars>>

\* if (!connection_established || connection_lost) continue;
SK_Check ==
    /\ At("ctrl", "sk_check")
    /\ Goto("ctrl", IF connection_established = 0 \/ connection_lost = 1
                    THEN "sk_wait_data" ELSE "sk_compute")
    /\ UNCHANGED <<modelVars, connVars, dataVars, timerVars, tflags, locals,
                   envVars>>

\* control = Controller_PIController(&reference, &velocity, &millisec);
SK_Compute ==
    /\ At("ctrl", "sk_compute")
    /\ \E r \in {Controller_PIController(CtrlState, reference, velocity,
                                         millisec)} :
          /\ integrator' = r.integrator
          /\ time_prev' = r.time_prev
          /\ first_call_after_reset' = r.first_call_after_reset
          /\ control' = r.ret
          /\ obs' = [obs EXCEPT
                       !.sess_calls = IF @ < 2 THEN @ + 1 ELSE @,
                       !.path = r.path,
                       !.computed = Tally(@),
                       !.cmd = [id |-> obs.rx.id, s |-> obs.session,
                                velocity |-> velocity, millisec |-> millisec,
                                out |-> r.ret]]
    /\ Goto("ctrl", "sk_signal")
    /\ UNCHANGED <<estVars, kernelVars, connVars, reference, velocity,
                   millisec, timerVars, tflags, locals, motor, clock, net>>

\* osThreadFlagsSet(tid_app_comm, FLAG_control_ready);
SK_Signal ==
    /\ At("ctrl", "sk_signal")
    /\ osThreadFlagsSet("comm", "control_ready")
    /\ Goto("ctrl", "sk_wait_data")
    /\ UNCHANGED <<modelVars, connVars, dataVars, timerVars, locals, envVars>>

\* osThreadFlagsWait(FLAG_periodic, osFlagsWaitAll, osWaitForever);
SR_WaitPeriodic ==
    /\ At("ref", "sr_wait_periodic")
    /\ "periodic" \in tflags["ref"]
    /\ tflags' = [tflags EXCEPT !["ref"] = @ \ {"periodic"}]
    /\ Goto("ref", "sr_check")
    /\ UNCHANGED <<modelVars, connVars, dataVars, timerVars, locals, envVars>>

\* if (!connection_established || connection_lost) continue;
SR_Check ==
    /\ At("ref", "sr_check")
    /\ Goto("ref", IF connection_established = 0 \/ connection_lost = 1
                   THEN "sr_wait_periodic" ELSE "sr_flip")
    /\ UNCHANGED <<modelVars, connVars, dataVars, timerVars, tflags, locals,
                   envVars>>

\* reference = -reference;
SR_Flip ==
    /\ At("ref", "sr_flip")
    /\ reference' = WrapS(WNeg(reference), 4)
    /\ Goto("ref", "sr_wait_periodic")
    /\ UNCHANGED <<modelVars, connVars, velocity, control, millisec,
                   timerVars, tflags, locals, envVars>>

\* osThreadFlagsWait(FLAG_connected, osFlagsWaitAny, osWaitForever);
SC_WaitConnected ==
    /\ At("comm", "sc_wait_conn")
    /\ "connected" \in tflags["comm"]
    /\ tflags' = [tflags EXCEPT !["comm"] = @ \ {"connected"}]
    /\ Goto("comm", "sc_loop")
    /\ UNCHANGED <<modelVars, connVars, dataVars, timerVars, locals, envVars>>

\* while (connection_established && !connection_lost) {
SC_Loop ==
    /\ At("comm", "sc_loop")
    /\ Goto("comm", IF connection_established = 1 /\ connection_lost = 0
                    THEN "sc_status" ELSE "sc_wait_conn")
    /\ UNCHANGED <<modelVars, connVars, dataVars, timerVars, tflags, locals,
                   envVars>>

\* socket_status = getsockopt(client_socket, SO_STATUS, NULL);
\* if (socket_status != SOCK_ESTABLISHED) { ... break; }
SC_Status ==
    /\ At("comm", "sc_status")
    /\ IF client_socket >= 0 /\ net.sock_ok
       THEN Goto("comm", "sc_recv") /\ CommEvent("none")
       ELSE Goto("comm", "sc_fault") /\ CommEvent("status")
    /\ UNCHANGED <<modelVars, connVars, dataVars, timerVars, tflags,
                   envVars>>

\* if (bytes_received != sizeof(ClientData_t)) { ... break; }
SC_RecvNext(n) == IF n # SizeofClientData THEN "sc_fault" ELSE "sc_store"

\* bytes_received = recv(client_socket, &rx_data, sizeof(ClientData_t), 0);
\* the call returns the whole record, a part of it, or fails
SC_Recv ==
    /\ At("comm", "sc_recv")
    /\ \E n \in {Failed} \cup ShortCounts(SizeofClientData)
                       \cup {SizeofClientData} :
          \/ /\ n = SizeofClientData
             /\ client_socket >= 0 /\ net.sock_ok /\ net.inbox # <<>>
             /\ locals' = [locals EXCEPT !.rx_data = Head(net.inbox)]
             /\ net' = [net EXCEPT !.inbox = Tail(@)]
             /\ obs' = [obs EXCEPT
                          !.unanswered = IF @ < 2 THEN @ + 1 ELSE @,
                          !.recvd = Tally(@),
                          !.rx = [id |-> Tally(obs.recvd), s |-> obs.session,
                                  velocity |-> Head(net.inbox).velocity,
                                  timestamp |-> Head(net.inbox).timestamp]]
             /\ Goto("comm", SC_RecvNext(n))
          \/ /\ n \in ShortCounts(SizeofClientData)
             /\ client_socket >= 0 /\ net.sock_ok /\ net.inbox # <<>>
             /\ obs.link_faults < MaxLinkFaults
             /\ obs' = [obs EXCEPT !.link_faults = @ + 1]
             /\ locals' = [locals EXCEPT
                             !.rx_data.velocity = Head(net.inbox).velocity,
                             !.comm_event = "recv"]
             /\ net' = [net EXCEPT !.inbox = Tail(@)]
             /\ Goto("comm", SC_RecvNext(n))
          \/ /\ n = Failed
             /\ client_socket < 0 \/ ~net.sock_ok
             /\ UNCHANGED <<net, obs>>
             /\ CommEvent("recv")
             /\ Goto("comm", SC_RecvNext(n))
    /\ UNCHANGED <<modelVars, connVars, dataVars, timerVars, tflags, motor,
                   clock>>

\* velocity = rx_data.velocity; millisec = rx_data.timestamp;
SC_Store ==
    /\ At("comm", "sc_store")
    /\ velocity' = locals.rx_data.velocity
    /\ millisec' = locals.rx_data.timestamp
    /\ locals' = [locals EXCEPT
                    !.rx_data = [velocity |-> W(0), timestamp |-> W(0)]]
    /\ Goto("comm", "sc_signal_ctrl")
    /\ UNCHANGED <<modelVars, connVars, reference, control, timerVars, tflags,
                   envVars>>

\* osThreadFlagsSet(tid_app_ctrl, FLAG_new_data);
SC_SignalCtrl ==
    /\ At("comm", "sc_signal_ctrl")
    /\ osThreadFlagsSet("ctrl", "new_data")
    /\ Goto("comm", "sc_wait_ctrl")
    /\ UNCHANGED <<modelVars, connVars, dataVars, timerVars, locals, envVars>>

\* flags = osThreadFlagsWait(FLAG_control_ready, osFlagsWaitAny, PERIOD_CTRL);
\* if (!(flags & FLAG_control_ready)) { ... break; }
SC_WaitControl ==
    /\ At("comm", "sc_wait_ctrl")
    /\ \/ /\ "control_ready" \in tflags["comm"]
          /\ tflags' = [tflags EXCEPT !["comm"] = @ \ {"control_ready"}]
          /\ Goto("comm", "sc_send")
          /\ locals' = locals
       \/ /\ "control_ready" \notin tflags["comm"]
          /\ tflags' = tflags
          /\ CommEvent("timeout")
          /\ \E f \in TimeoutReturns :
                Goto("comm", IF "control_ready" \in f THEN "sc_send"
                             ELSE "sc_fault")
    /\ UNCHANGED <<modelVars, connVars, dataVars, timerVars, envVars>>

\* if (bytes_sent != sizeof(ServerData_t)) { ... break; }
SC_SendNext(n) == IF n # SizeofServerData THEN "sc_fault" ELSE "sc_loop"

\* tx_data.control = control;
\* bytes_sent = send(client_socket, &tx_data, sizeof(ServerData_t), 0);
SC_Send ==
    /\ At("comm", "sc_send")
    /\ \E n \in {Failed} \cup ShortCounts(SizeofServerData)
                       \cup {SizeofServerData} :
          \/ /\ n = SizeofServerData
             /\ client_socket >= 0 /\ net.sock_ok
             /\ net' = [net EXCEPT !.sent = control]
             /\ obs' = [obs EXCEPT
                          !.unanswered = IF @ > 0 THEN @ - 1 ELSE @,
                          !.sent = Tally(@)]
             /\ locals' = locals
             /\ Goto("comm", SC_SendNext(n))
          \/ /\ n \in ShortCounts(SizeofServerData)
             /\ client_socket >= 0 /\ net.sock_ok
             /\ obs.link_faults < MaxLinkFaults
             /\ obs' = [obs EXCEPT !.link_faults = @ + 1]
             /\ net' = net
             /\ CommEvent("send")
             /\ Goto("comm", SC_SendNext(n))
          \/ /\ n = Failed
             /\ client_socket < 0 \/ ~net.sock_ok
             /\ UNCHANGED <<net, obs>>
             /\ CommEvent("send")
             /\ Goto("comm", SC_SendNext(n))
    /\ UNCHANGED <<modelVars, connVars, dataVars, timerVars, tflags, motor,
                   clock>>

\* connection_lost = 1;
SC_Fault ==
    /\ At("comm", "sc_fault")
    /\ RaiseFault("comm")
    /\ Goto("comm", "sc_fault_signal")
    /\ UNCHANGED <<modelVars, connection_established, client_socket,
                   server_socket, dataVars, timerVars, tflags, locals,
                   motor, clock, net>>

\* osThreadFlagsSet(tid_app_main, FLAG_disconnected); break;
SC_FaultSignal ==
    /\ At("comm", "sc_fault_signal")
    /\ osThreadFlagsSet("main", "disconnected")
    /\ locals' = [locals EXCEPT
                    !.comm_event = "none",
                    !.rx_data = [velocity |-> W(0), timestamp |-> W(0)]]
    /\ Goto("comm", "sc_wait_conn")
    /\ UNCHANGED <<modelVars, connVars, dataVars, timerVars, envVars>>

\* static void Timer_Callback(void *argument): timer_ctrl, argument app_ctrl
S_Timer_Callback_Ctrl ==
    /\ unit = "app-server.c"
    /\ timer_ctrl
    /\ "periodic" \notin tflags["ctrl"]
    /\ osThreadFlagsSet("ctrl", "periodic")
    /\ UNCHANGED <<modelVars, connVars, dataVars, timerVars, pc, locals,
                   envVars>>

\* static void Timer_Callback(void *argument): timer_ref, argument app_ref
S_Timer_Callback_Ref ==
    /\ unit = "app-server.c"
    /\ timer_ref
    /\ "periodic" \notin tflags["ref"]
    /\ osThreadFlagsSet("ref", "periodic")
    /\ UNCHANGED <<modelVars, connVars, dataVars, timerVars, pc, locals,
                   envVars>>

\* the peer sends the MeasurementMessage of its next tick
S_PeerSend ==
    /\ unit = "app-server.c"
    /\ net.sock_ok
    /\ net.inbox = <<>>
    /\ obs.msgs < MaxMessages
    /\ \E v \in PeerVelocities :
          net' = [net EXCEPT
                    !.inbox = <<[velocity |-> v,
                                 timestamp |-> W(net.peer_ms + PERIOD_CTRL)]>>,
                    !.peer_ms = @ + PERIOD_CTRL]
    /\ obs' = [obs EXCEPT !.msgs = @ + 1]
    /\ UNCHANGED <<modelVars, connVars, dataVars, timerVars, thrVars, motor,
                   clock>>

\* the transport fails: the session's socket is no longer established
S_LinkDown ==
    /\ unit = "app-server.c"
    /\ net.sock_ok
    /\ obs.link_faults < MaxLinkFaults
    /\ net' = [net EXCEPT !.sock_ok = FALSE]
    /\ obs' = [obs EXCEPT !.link_faults = @ + 1]
    /\ UNCHANGED <<modelVars, connVars, dataVars, timerVars, thrVars, motor,
                   clock>>

ServerNext ==
    \/ SM_CheckLost \/ SM_StopCtrlTimer \/ SM_StopRefTimer \/ SM_CloseClient
    \/ SM_CloseServer \/ SM_ClearEstablished \/ SM_ClearLost \/ SM_Reset
    \/ SM_Delay \/ SM_CheckEstablished \/ SM_Socket \/ SM_Bind \/ SM_Listen
    \/ SM_Accept \/ SM_SetEstablished \/ SM_SetLost0 \/ SM_ResetSession
    \/ SM_StartCtrlTimer \/ SM_StartRefTimer \/ SM_SignalComm
    \/ SM_CloseFailed \/ SM_RetryDelay \/ SM_WaitDisconnected
    \/ SK_WaitData \/ SK_Check \/ SK_Compute \/ SK_Signal
    \/ SR_WaitPeriodic \/ SR_Check \/ SR_Flip
    \/ SC_WaitConnected \/ SC_Loop \/ SC_Status \/ SC_Recv \/ SC_Store
    \/ SC_SignalCtrl \/ SC_WaitControl \/ SC_Send \/ SC_Fault
    \/ SC_FaultSignal
    \/ S_Timer_Callback_Ctrl \/ S_Timer_Callback_Ref \/ S_PeerSend
    \/ S_LinkDown

SpecServer == ServerInit /\ [][ServerNext]_vars

(***************************************************************************)
(* Claims about the server (SpecServer).                                   *)
(***************************************************************************)
\* C10: the first Controller_PIController invocation of every session, the
\* initial one and every one after a reconnection, returns 0 and leaves the
\* integrator at 0, whatever the previous session had accumulated.
C10_FirstInvocationFresh ==
    (unit = "app-server.c" /\ obs.sess_calls = 1)
        => control = W(0) /\ integrator = W(0)

C10_Witness ==
    /\ unit = "app-server.c" /\ obs.session = 2 /\ obs.sess_calls = 1
    /\ obs.accumulated # W(0) /\ obs.path = "first"
    /\ pc["ctrl"] = "sk_signal" /\ control = W(0) /\ integrator = W(0)

(***************************************************************************)
(* Both nodes: a behaviour is a behaviour of the client or of the server.  *)
(***************************************************************************)
NodesInit == ClientInit \/ ServerInit

NodesNext == ClientNext \/ ServerNext

SpecNodes == NodesInit /\ [][NodesNext]_vars

\* the statements of app_main that make up one connection attempt
AttemptLabels ==
    {"m_socket", "m_connect", "m_close_failed", "m_set_est",
     "sm_socket", "sm_bind", "sm_listen", "sm_accept", "sm_close_failed",
     "sm_set_est"}

\* the first statement of an attempt
AttemptStart == pc["main"] \in {"m_socket", "sm_socket"}

\* the session phase of the connection state machine
Phase ==
    IF obs.fault_open THEN "Faulted"
    ELSE IF connection_established = 1 THEN "Connected"
    ELSE IF pc["main"] \in AttemptLabels THEN "Connecting"
    ELSE "Idle"

PhaseMoves ==
    {<<"Idle", "Connecting">>, <<"Connecting", "Connected">>,
     <<"Connecting", "Idle">>, <<"Connected", "Faulted">>,
     <<"Faulted", "Idle">>}

\* the controller is in the state Controller_Reset leaves
ControllerIsReset ==
    integrator = W(0) /\ time_prev = W(0) /\ first_call_after_reset = 1

\* the fault handling of the previous session has completed
TornDown ==
    /\ ~timer_ctrl /\ ~timer_ref
    /\ client_socket = -1 /\ server_socket = -1
    /\ connection_established = 0
    /\ ControllerIsReset
    /\ ~obs.fault_open

\* C11: the session phase only moves Idle -> Connecting -> Connected ->
\* Faulted -> Idle, or Connecting -> Idle; an attempt starts only when the
\* previous session is torn down (timers stopped, sockets closed, controller
\* reset, connection_established cleared), and Connected is entered with no
\* raised fault open.
C11_PhaseOrder ==
    [][/\ Phase' # Phase => <<Phase, Phase'>> \in PhaseMoves
       /\ AttemptStart' => TornDown'
       /\ (connection_established = 0 /\ connection_established' = 1)
             => ~obs.fault_open /\ ~obs'.fault_open]_vars

\* a second session becomes Connected after the first was lost and torn down
C11_Witness ==
    /\ obs.session = 2 /\ Phase = "Connected"
    /\ pc["main"] \in {"m_wait_disc", "sm_wait_disc"}
    /\ obs.link_faults = 1

\* app_main is in its backoff delay or about to start an attempt
IdleLabels ==
    {"m_delay", "m_retry_delay", "m_check_lost", "m_check_est", "m_socket",
     "sm_delay", "sm_retry_delay", "sm_check_lost", "sm_check_est",
     "sm_socket"}

\* C12: in Idle (connection_established = 0, app_main in its backoff delay or
\* about to start an attempt) no socket is open and client_socket and
\* server_socket are -1; the socket of a failed connect, bind, listen or
\* accept is closed before the backoff.
C12_IdleHoldsNothing ==
    (connection_established = 0 /\ pc["main"] \in IdleLabels) =>
        /\ net.open = {}
        /\ client_socket = -1
        /\ server_socket = -1

\* the backoff after a failed accept: the listening socket has been closed
C12_Witness ==
    /\ pc["main"] = "sm_retry_delay" /\ obs.failed = "accept"
    /\ connection_established = 0
    /\ net.open = {} /\ client_socket = -1 /\ server_socket = -1

\* C13: when the loss of a session was raised by two or more triggers, the
\* session's socket has been closed exactly once, no close() was called on a
\* released handle, and the controller is in its reset state, as after a
\* single trigger.
C13_IdempotentTeardown ==
    /\ ~obs.bad_close
    /\ obs.closes <= 1
    /\ (obs.triggers >= 2 /\ connection_established = 0
          /\ pc["main"] \in IdleLabels) =>
            obs.closes = 1 /\ ControllerIsReset

\* app_comm and app_ctrl both raised the loss of the client's session
C13_Witness ==
    /\ unit = "app-client.c" /\ obs.triggers = 2 /\ obs.fault_by = "comm"
    /\ pc["main"] = "m_delay" /\ connection_established = 0
    /\ obs.closes = 1 /\ ~obs.bad_close /\ ControllerIsReset

\* C14: on a session's connection the client sends a MeasurementMessage only
\* when none of that session is unanswered, and the server sends a
\* CommandMessage only when exactly one received MeasurementMessage is
\* unanswered: the messages alternate.
C14_Alternation ==
    /\ unit = "app-client.c" =>
          /\ Len(net.pending) <= 1
          /\ pc["comm"] = "c_send" => net.pending = <<>>
    /\ unit = "app-server.c" =>
          /\ obs.unanswered <= 1
          /\ pc["comm"] = "sc_send" => obs.unanswered = 1

\* the second measurement of a session is about to be sent after the first
\* has been answered
C14_Witness ==
    /\ unit = "app-client.c" /\ pc["comm"] = "c_send"
    /\ net.sock_ok /\ net.pending = <<>>
    /\ obs.vtag = [s |-> obs.session, n |-> 2]
    /\ obs.ctag = [s |-> obs.session, n |-> 1]

\* C15: the server invokes Controller_PIController once for each received
\* MeasurementMessage and for nothing else (FLAG_periodic of timer_ctrl does
\* not start it), and sends at most one CommandMessage per invocation: the
\* invocations never exceed the received messages, equal them whenever no
\* message is being handed to app_ctrl, and the sent commands never exceed
\* the invocations.
C15_MessageDriven ==
    unit = "app-server.c" =>
        /\ obs.computed <= obs.recvd
        /\ obs.recvd <= obs.computed + 1
        /\ obs.sent <= obs.computed
        /\ pc["ctrl"] = "sk_compute" => obs.computed < obs.recvd
        /\ (/\ pc["comm"] \notin {"sc_store", "sc_signal_ctrl"}
            /\ pc["ctrl"] = "sk_wait_data"
            /\ "new_data" \notin tflags["ctrl"]) =>
              obs.computed = obs.recvd
        /\ pc["comm"] = "sc_send" => obs.computed = obs.recvd

\* the timer has fired, app_ctrl stays in its wait; two messages were
\* received, each computed once and answered once
C15_Witness ==
    /\ unit = "app-server.c" /\ "periodic" \in tflags["ctrl"]
    /\ pc["ctrl"] = "sk_wait_data"
    /\ obs.recvd = 2 /\ obs.computed = 2 /\ obs.sent = 2

\* C16: in a client tick whose wait for FLAG_control_received ran out,
\* app_ctrl goes on to apply the neutral command, set connection_lost and
\* signal FLAG_disconnected, and does not apply the shared control value.
C16_TimeoutForcesNeutral ==
    (unit = "app-client.c" /\ locals.ctrl_timeout) =>
        pc["ctrl"] \in {"k_test", "k_neutral", "k_set_lost", "k_signal_main"}

\* the statements of app_comm that set connection_lost and signal
\* FLAG_disconnected, and those at which it sends or receives
CommFaultLabels == {"c_fault", "c_fault_signal", "sc_fault", "sc_fault_signal"}
CommTransferLabels == {"c_send", "c_recv", "sc_recv", "sc_send"}

\* C17: after a failed or short send or recv, a socket status other than
\* established, or a flag-wait timeout, app_comm goes on to set
\* connection_lost and signal FLAG_disconnected, and once it has done so it
\* neither sends nor receives in that session.
C17_EventEndsSession ==
    /\ locals.comm_event # "none" => pc["comm"] \in CommFaultLabels
    /\ pc["comm"] \in CommTransferLabels => obs.lost_by_comm # obs.session

\* the last recv of app_comm returned a count other than the record's size
BadRecv == locals.comm_event = "recv"

\* C20: a recv that returns a byte count different from the size of the
\* record it expects leads app_comm to raise the fault; it updates none of
\* control (client), velocity and millisec (server) and does not signal
\* app_ctrl.
C20_WholeOrNothing ==
    [][(BadRecv \/ BadRecv') =>
          /\ BadRecv' => pc'["comm"] \in CommFaultLabels
          /\ unit = "app-client.c" =>
                /\ control' = control
                /\ "control_received" \in tflags'["ctrl"]
                      => "control_received" \in tflags["ctrl"]
          /\ unit = "app-server.c" =>
                /\ velocity' = velocity /\ millisec' = millisec
                /\ "new_data" \in tflags'["ctrl"]
                      => "new_data" \in tflags["ctrl"]]_vars

\* a part of a ServerData_t has been read into rx_data; control keeps its
\* value and app_comm is about to raise the fault
C20_Witness ==
    /\ unit = "app-client.c" /\ BadRecv /\ pc["comm"] = "c_fault"
    /\ locals.rx_data.control = W(640000000) /\ control = W(0)

\* thread t takes the step
Actor(t) == pc'[t] # pc[t]

\* C19: after Application_Setup each of reference, velocity, control and
\* millisec is changed by one task only: on the client velocity and millisec
\* by app_ctrl, control by app_comm, reference by none; on the server velocity
\* and millisec by app_comm, control by app_ctrl, reference by app_ref.
C19_SingleWriter ==
    [][/\ unit = "app-client.c" =>
             /\ (velocity' # velocity \/ millisec' # millisec)
                   => Actor("ctrl")
             /\ control' # control => Actor("comm")
             /\ reference' = reference
       /\ unit = "app-server.c" =>
             /\ (velocity' # velocity \/ millisec' # millisec)
                   => Actor("comm")
             /\ control' # control => Actor("ctrl")
             /\ reference' # reference => Actor("ref")]_vars

\* every shared scalar of the server has been written by its task
C19_Witness ==
    /\ unit = "app-server.c"
    /\ reference = W(-2000) /\ velocity = W(2500)
    /\ millisec # W(0) /\ control # W(0)

(***************************************************************************)
(* Fair scheduling.  The steps of each thread, on either node:             *)
(***************************************************************************)
MainStep ==
    \/ CM_CheckLost \/ CM_Neutral \/ CM_Disable \/ CM_StopTimer \/ CM_Close
    \/ CM_ClearEstablished \/ CM_ClearLost \/ CM_Reset \/ CM_Delay
    \/ CM_CheckEstablished \/ CM_Socket \/ CM_Connect \/ CM_SetEstablished
    \/ CM_SetLost0 \/ CM_ResetSession \/ CM_EnableMotor \/ CM_StartTimer
    \/ CM_SignalComm \/ CM_CloseFailed \/ CM_RetryDelay \/ CM_WaitDisconnected
    \/ SM_CheckLost \/ SM_StopCtrlTimer \/ SM_StopRefTimer \/ SM_CloseClient
    \/ SM_CloseServer \/ SM_ClearEstablished \/ SM_ClearLost \/ SM_Reset
    \/ SM_Delay \/ SM_CheckEstablished \/ SM_Socket \/ SM_Bind \/ SM_Listen
    \/ SM_Accept \/ SM_SetEstablished \/ SM_SetLost0 \/ SM_ResetSession
    \/ SM_StartCtrlTimer \/ SM_StartRefTimer \/ SM_SignalComm
    \/ SM_CloseFailed \/ SM_RetryDelay \/ SM_WaitDisconnected

CtrlStep ==
    \/ CK_WaitPeriodic \/ CK_Check \/ CK_Measure \/ CK_WaitControl \/ CK_Test
    \/ CK_Neutral \/ CK_SetLost \/ CK_SignalMain \/ CK_Apply
    \/ SK_WaitData \/ SK_Check \/ SK_Compute \/ SK_Signal

CommStep ==
    \/ CC_WaitConnected \/ CC_Loop \/ CC_Status \/ CC_WaitData \/ CC_Send
    \/ CC_Recv \/ CC_Update \/ CC_SignalCtrl \/ CC_Fault \/ CC_FaultSignal
    \/ SC_WaitConnected \/ SC_Loop \/ SC_Status \/ SC_Recv \/ SC_Store
    \/ SC_SignalCtrl \/ SC_WaitControl \/ SC_Send \/ SC_Fault
    \/ SC_FaultSignal

RefStep == SR_WaitPeriodic \/ SR_Check \/ SR_Flip

\* The scheduler runs the highest-priority ready thread, so app_ctrl steps
\* whenever it stays ready; a lower-priority thread steps if it is able to
\* again and again.  The timer periods are long against the work of a tick:
\* again and again no thread above app_main is ready.  Timer expiries,
\* transport failures and the peer are not forced.
FairNodes ==
    /\ WF_vars(CtrlStep)
    /\ SF_vars(CommStep)
    /\ SF_vars(RefStep)
    /\ SF_vars(MainStep)
    /\ []<>CanRun("main")

\* the timer and the peer have one more event to give on each node
FairInit == ClientStart(MaxTicks - 1) \/ ServerStart(MaxMessages - 1)

SpecNodesFair == FairInit /\ [][NodesNext]_vars /\ FairNodes

WaitsDisconnected == pc["main"] \in {"m_wait_disc", "sm_wait_disc"}

InRetryDelay == pc["main"] \in {"m_retry_delay", "sm_retry_delay"}

\* C18: under fair scheduling every raised fault is followed by the start of
\* a new connection attempt (after the fault handling), every failed attempt
\* by another attempt, and app_main does not stay in its wait for
\* FLAG_disconnected while connection_lost is set.
C18_AlwaysReconnects ==
    /\ obs.fault_open ~> (AttemptStart /\ TornDown)
    /\ InRetryDelay ~> AttemptStart
    /\ (WaitsDisconnected /\ connection_lost = 1) ~> ~WaitsDisconnected

\* a fault has been raised while app_main is blocked on FLAG_disconnected
C18_Witness ==
    /\ WaitsDisconnected /\ connection_lost = 1 /\ obs.fault_open
    /\ "disconnected" \in tflags["main"]

(***************************************************************************)
(* Session start, estimator rate, repeated timestamp                       *)
(***************************************************************************)
\* app_ctrl is about to take the first velocity estimate of the session
FirstEstimateOfSession ==
    /\ unit = "app-client.c"
    /\ pc["ctrl"] = "k_measure"
    /\ obs.vtag.s # obs.session

\* C21: at the first velocity estimate of every session the estimator and
\* the controller are both in their reset state, so that estimate is a first
\* call (it returns 0 and sets its baseline) as the first controller
\* computation is.
C21_SessionStartsFresh ==
    FirstEstimateOfSession => vel_initialized = 0 /\ ControllerIsReset

\* the raw rate of the last estimate: rpm in peripherals.c (before the
\* filter), velocity_rpm in the draft
HRawRate ==
    IF unit = "peripherals.c" THEN Raw_rpm(hist.counts, HEstDt) ELSE hist.ret

HResolution ==
    IF unit = "peripherals.c" THEN RESOLUTION ELSE RESOLUTION_DRAFT

\* q is num / den (den > 0) rounded to the nearest integer, ties away from
\* zero: q has the sign of num and 2|q|den <= 2|num| + den < 2(|q| + 1)den
IsNearestAway(q, num, den) ==
    LET a   == WMk(FALSE, num.mag)
        m   == W(Abs(q))
        mid == WAdd(WMul(W(2), a), den)
    IN  /\ (q < 0 => num.neg) /\ (q > 0 => ~num.neg)
        /\ WLe(WMul(WMul(W(2), m), den), mid)
        /\ WLt(mid, WMul(WMul(W(2), WAdd(m, W(1))), den))

\* C22: for every displacement and every dt > 0 the raw rate of the
\* estimator is diff * 60000 / (counts per revolution * dt) rounded to the
\* nearest integer, ties away from zero.
C22_RoundedRate ==
    (unit \in EstUnits /\ HEstTick) =>
        IsNearestAway(HRawRate, WMul(W(hist.counts), W(60000)),
                      WMul(W(HResolution), HEstDt))

\* the last call was a non-first controller call whose timestamp equals the
\* stored previous timestamp
HZeroDt ==
    unit \in CtrlUnits /\ hist.op = "pi" /\ hist.pre.first = 0 /\ HDt = W(0)

\* the controller's static state before the last call
HPreCtrl ==
    [integrator |-> hist.pre.integrator, time_prev |-> hist.pre.time_prev,
     first_call_after_reset |-> hist.pre.first]

\* the controller call of the unit under test
UnitPI(st, ref, meas, ms) ==
    IF unit = "controller.c" THEN Controller_PIController(st, ref, meas, ms)
    ELSE Controller_PIController_TEST(st, ref, meas, ms)

\* C23: a non-first controller call whose timestamp equals the stored previous
\* timestamp returns 0 and leaves the integrator unchanged, so that every
\* following call with dt > 0 returns the command, and leaves the state, it
\* would have without the zero-dt call.
C23_ZeroDtIsTransparent ==
    HZeroDt =>
        /\ hist.ret = W(0)
        /\ integrator = hist.pre.integrator
        /\ \A ref \in References, meas \in Measured, ms \in Stamps :
              ms # time_prev =>
                  UnitPI(CtrlState, ref, meas, ms)
                      = UnitPI(HPreCtrl, ref, meas, ms)

C23_Witness ==
    /\ HZeroDt /\ unit = "controller.c"
    /\ integrator # W(0) /\ hist.prev.path = "tick"
    /\ \E ref \in References, meas \in Measured, ms \in Stamps :
          /\ ms # time_prev
          /\ Controller_PIController(CtrlState, ref, meas, ms).ret # W(0)

(* Server: the command that answers a measurement *)
\* app_comm sends a whole CommandMessage in this step
SendsCommand == unit = "app-server.c" /\ obs'.sent # obs.sent

\* C24: the CommandMessage the server sends in answer to the k-th
\* MeasurementMessage carries the value Controller_PIController returned for
\* that message's velocity and timestamp, in the session of that message.
C24_AnswersItsMeasurement ==
    [][SendsCommand =>
          /\ net'.sent = obs.cmd.out
          /\ obs.cmd.id = obs.rx.id /\ obs.rx.id = obs.recvd
          /\ obs.cmd.s = obs.session /\ obs.rx.s = obs.session
          /\ obs.cmd.velocity = obs.rx.velocity
          /\ obs.cmd.millisec = obs.rx.timestamp]_vars

C24_Witness ==
    /\ unit = "app-server.c" /\ pc["comm"] = "sc_loop"
    /\ obs.session = 2 /\ obs.sent = 3 /\ obs.cmd.id = 3
    /\ net.sent = obs.cmd.out /\ net.sent # W(0)
    /\ obs.cmd.velocity = W(2500)

(***************************************************************************)
(* controller.c statement by statement: Controller_Reset in app_main and   *)
(* Controller_PIController in app_ctrl, under the priorities of the        *)
(* threads (SpecRace).                                                     *)
(***************************************************************************)
MaxRaceCalls == 5

\* what app_comm hands to the controller in these runs
RaceMeasured == {W(0), W(2500)}
RaceStamps == {W(50), W(2050)}

\* race: "none"; "open" once a Controller_Reset that overlapped a controller
\* call has returned while that call has not; "done" once both have returned
RaceLocals ==
    [meas |-> W(0), ms |-> W(0), dt_ms |-> W(0), p_term |-> W(0),
     pre |-> NoHist.pre, overlap |-> FALSE, race |-> "none",
     judged |-> FALSE, last_judged |-> FALSE]

RaceInit ==
    /\ unit = "controller.c"
    /\ AppIdle
    /\ CtrlInit
    /\ EstInit
    /\ TIM1_CNT = 0
    /\ calls = 0
    /\ disp = 0
    /\ hist = NoHist

RaceUnchanged ==
    UNCHANGED <<estVars, unit, disp, connVars, dataVars, timerVars, tflags,
                envVars>>

\* app_ctrl is released and calls Controller_PIController (app-server.c:246)
R_Call ==
    /\ unit = "controller.c"
    /\ pc["ctrl"] = "idle"
    /\ calls < MaxRaceCalls
    /\ \E meas \in RaceMeasured, ms \in RaceStamps :
          locals' = [(IF locals = <<>> THEN RaceLocals ELSE locals) EXCEPT
                       !.meas = meas, !.ms = ms,
                       !.overlap = @ \/ pc["main"] # "idle",
                       !.judged = locals # <<>> /\ locals.race = "done"]
    /\ calls' = calls + 1
    /\ Goto("ctrl", "pi_entry")
    /\ UNCHANGED <<ctrlVars, hist>>
    /\ RaceUnchanged

\* if (first_call_after_reset) {
R_Entry ==
    /\ At("ctrl", "pi_entry")
    /\ locals' = [locals EXCEPT
                    !.pre = [NoHist.pre EXCEPT
                               !.integrator = integrator,
                               !.time_prev = time_prev,
                               !.first = first_call_after_reset]]
    /\ Goto("ctrl", IF first_call_after_reset = 1 THEN "pi_first_time"
                    ELSE "pi_dt")
    /\ UNCHANGED <<ctrlVars, calls, hist>>
    /\ RaceUnchanged

\* the call returns r: app_ctrl goes back to its wait
R_Return(ret, path) ==
    /\ hist' = [NoHist EXCEPT
                  !.op = "pi", !.path = path, !.ref = reference,
                  !.meas = locals.meas, !.ms = locals.ms, !.ret = ret,
                  !.called = TRUE, !.pre = locals.pre, !.prev = PrevOf(hist)]
    /\ locals' = [locals EXCEPT
                    !.last_judged = locals.judged, !.judged = FALSE,
                    !.race = IF locals.judged THEN "none"
                             ELSE IF @ = "open" THEN "done" ELSE @]
    /\ Goto("ctrl", "idle")

\* time_prev = *ms;
R_FirstTime ==
    /\ At("ctrl", "pi_first_time")
    /\ time_prev' = PI_FirstCall(CtrlState, locals.ms).time_prev
    /\ Goto("ctrl", "pi_first_int")
    /\ UNCHANGED <<integrator, first_call_after_reset, calls, hist, locals>>
    /\ RaceUnchanged

\* integrator = 0;
R_FirstInt ==
    /\ At("ctrl", "pi_first_int")
    /\ integrator' = PI_FirstCall(CtrlState, locals.ms).integrator
    /\ Goto("ctrl", "pi_first_flag")
    /\ UNCHANGED <<time_prev, first_call_after_reset, calls, hist, locals>>
    /\ RaceUnchanged

\* first_call_after_reset = 0; return 0;
R_FirstFlag ==
    /\ At("ctrl", "pi_first_flag")
    /\ first_call_after_reset' =
          PI_FirstCall(CtrlState, locals.ms).first_call_after_reset
    /\ R_Return(W(0), "first")
    /\ UNCHANGED <<integrator, time_prev, calls>>
    /\ RaceUnchanged

\* uint32_t dt_ms = now_ms - time_prev; time_prev = now_ms;
\* if (dt_ms == 0) return 0;
R_Dt ==
    /\ At("ctrl", "pi_dt")
    /\ time_prev' = locals.ms
    /\ \E dt_ms \in {WrapU(WSub(locals.ms, time_prev), 4)} :
          \/ /\ dt_ms = W(0)
             /\ R_Return(W(0), "zero_dt")
          \/ /\ dt_ms # W(0)
             /\ locals' = [locals EXCEPT !.dt_ms = dt_ms]
             /\ Goto("ctrl", "pi_integrate")
             /\ hist' = hist
    /\ UNCHANGED <<integrator, first_call_after_reset, calls>>
    /\ RaceUnchanged

\* error, p_term, i_increment; integrator += i_increment;
R_Integrate ==
    /\ At("ctrl", "pi_integrate")
    /\ \E error \in {PI_error(reference, locals.meas)} :
          /\ integrator' =
                WrapS(WAdd(integrator, PI_i_increment(error, locals.dt_ms)), 8)
          /\ locals' = [locals EXCEPT !.p_term = PI_p_term(error)]
    /\ Goto("ctrl", "pi_saturate")
    /\ UNCHANGED <<time_prev, first_call_after_reset, calls, hist>>
    /\ RaceUnchanged

\* control_64 = p_term + integrator; saturation; return (int32_t)control_64;
R_Saturate ==
    /\ At("ctrl", "pi_saturate")
    /\ \E sat \in {PI_Saturate(WrapS(WAdd(locals.p_term, integrator), 8),
                               locals.p_term, integrator)} :
          /\ integrator' = sat.integrator
          /\ R_Return(WrapS(sat.control_64, 4), "tick")
    /\ UNCHANGED <<time_prev, first_call_after_reset, calls>>
    /\ RaceUnchanged

\* app_main calls Controller_Reset (app-server.c:125, 157)
R_ResetCall ==
    /\ unit = "controller.c"
    /\ At("main", "idle")
    /\ calls < MaxRaceCalls
    /\ calls' = calls + 1
    /\ locals' = [(IF locals = <<>> THEN RaceLocals ELSE locals) EXCEPT
                    !.overlap = pc["ctrl"] # "idle", !.race = "none"]
    /\ Goto("main", "rs_integrator")
    /\ UNCHANGED <<ctrlVars, hist>>
    /\ RaceUnchanged

\* integrator = 0;
R_ResetIntegrator ==
    /\ At("main", "rs_integrator")
    /\ integrator' = Controller_Reset(CtrlState).integrator
    /\ locals' = [locals EXCEPT !.overlap = @ \/ pc["ctrl"] # "idle"]
    /\ Goto("main", "rs_time_prev")
    /\ UNCHANGED <<time_prev, first_call_after_reset, calls, hist>>
    /\ RaceUnchanged

\* time_prev = 0;
R_ResetTimePrev ==
    /\ At("main", "rs_time_prev")
    /\ time_prev' = Controller_Reset(CtrlState).time_prev
    /\ locals' = [locals EXCEPT !.overlap = @ \/ pc["ctrl"] # "idle"]
    /\ Goto("main", "rs_first")
    /\ UNCHANGED <<integrator, first_call_after_reset, calls, hist>>
    /\ RaceUnchanged

\* first_call_after_reset = 1;  and the function returns
R_ResetFirst ==
    /\ At("main", "rs_first")
    /\ first_call_after_reset' =
          Controller_Reset(CtrlState).first_call_after_reset
    /\ locals' = [locals EXCEPT
                    !.overlap = FALSE,
                    !.race = IF locals.overlap \/ pc["ctrl"] # "idle"
                             THEN (IF pc["ctrl"] = "idle" THEN "done"
                                   ELSE "open")
                             ELSE "none"]
    /\ Goto("main", "idle")
    /\ UNCHANGED <<integrator, time_prev, calls, hist>>
    /\ RaceUnchanged

RaceNext ==
    \/ R_Call \/ R_Entry \/ R_FirstTime \/ R_FirstInt \/ R_FirstFlag
    \/ R_Dt \/ R_Integrate \/ R_Saturate
    \/ R_ResetCall \/ R_ResetIntegrator \/ R_ResetTimePrev \/ R_ResetFirst

SpecRace == RaceInit /\ [][RaceNext]_vars

\* the controller call that has just returned was the next call after a
\* Controller_Reset and a controller call that overlapped it had both returned
HAfterRace ==
    /\ locals # <<>> /\ locals.last_judged
    /\ pc["ctrl"] = "idle" /\ hist.op = "pi"

\* C25: once a Controller_Reset and a Controller_PIController call that
\* overlapped it have both returned, the next controller call is a first call:
\* it returns 0 and leaves the integrator at 0.
C25_ResetSurvivesOverlap ==
    HAfterRace =>
        /\ hist.path = "first"
        /\ hist.ret = W(0)
        /\ integrator = W(0)

C25_Witness ==
    /\ HAfterRace /\ hist.path = "first" /\ integrator = W(0)
    /\ hist.pre.integrator # W(0) /\ hist.pre.time_prev # W(0)

(* Client: the motor driver *)
\* C26: on the client the motor driver is enabled only during a session: in
\* every state in which no session is established, the states before the
\* first connection included, the motor driver is disabled.
C26_MotorOnlyInSession ==
    (unit = "app-client.c" /\ connection_established = 0) => ~motor.enabled

(* Server: a peer that falls silent *)
\* app_comm of the server is in recv() on an established session and no
\* MeasurementMessage is waiting
AwaitsMeasurement ==
    /\ unit = "app-server.c"
    /\ pc["comm"] = "sc_recv" /\ net.inbox = <<>>
    /\ connection_established = 1 /\ connection_lost = 0

\* C27: on the server a session whose peer sends no further
\* MeasurementMessage while the transport stays established eventually becomes
\* Faulted: app_comm does not stay in recv for ever.
C27_SilentPeerFaults ==
    AwaitsMeasurement ~>
        (/\ unit = "app-server.c"
         /\ (connection_lost = 1 \/ ~net.sock_ok \/ net.inbox # <<>>))

(* Flags and faults that outlive their session *)
\* app_main has just set connection_established: the session is Connected
EntersConnected == pc["main"] \in {"m_set_lost0", "sm_set_lost0"}

\* C28: at every entry into Connected none of the data-path flags is pending:
\* FLAG_data_ready on app_comm and FLAG_control_received on app_ctrl on the
\* client, FLAG_new_data on app_ctrl and FLAG_control_ready on app_comm on the
\* server.
C28_NoStaleDataFlags ==
    EntersConnected =>
        IF unit = "app-client.c"
        THEN /\ "data_ready" \notin tflags["comm"]
             /\ "control_received" \notin tflags["ctrl"]
        ELSE /\ "new_data" \notin tflags["ctrl"]
             /\ "control_ready" \notin tflags["comm"]

\* app_main of the client has found connection_lost set on an established
\* session and starts the fault handling (app-client.c:100-102)
StartsFaultHandling ==
    /\ unit = "app-client.c"
    /\ pc["main"] = "m_neutral" /\ connection_established = 1

\* app_main of the client is about to execute connection_lost = 0 of a
\* successful connect (app-client.c:145)
ClearsOnConnect == unit = "app-client.c" /\ pc["main"] = "m_set_lost0"

INT64_MAX == WSub(WDivT(WPow(8), 2), W(1))
INT64_MIN == WNeg(WDivT(WPow(8), 2))

FitsInt32(x) == WLe(INT32_MIN, x) /\ WLe(x, INT32_MAX)
FitsInt64(x) == WLe(INT64_MIN, x) /\ WLe(x, INT64_MAX)

\* rx_data.velocity and rx_data.timestamp are stored unchecked
\* (app-server.c:311-312): any int32_t, any uint32_t
AnyMeasured == {W(0), W(-4000), INT32_MIN, INT32_MAX}
AnyStamps == {W(0), W(50), UINT32_MAX}

\* exact values of the intermediate results of the last tick
HProduct == WMul(WMul(W(KI), HError), HDt)
HIntegrator == WAdd(hist.pre.integrator, WDivT(HProduct, 1000))

\* every intermediate result of the last call fits the C type it is computed
\* in
HInType ==
    HTick =>
        /\ FitsInt32(HError)
        /\ FitsInt64(HProduct)
        /\ FitsInt64(HIntegrator)
        /\ FitsInt64(WAdd(HPTerm, HIntegrator))

UnvalidatedInit == KernelInit /\ unit = "controller.c"

\* control = Controller_PIController(&reference, &velocity, &millisec);
\* with velocity and millisec as received
KPICallUnvalidated ==
    /\ unit = "controller.c"
    /\ calls < MaxCalls
    /\ \E ref \in References, meas \in AnyMeasured, ms \in AnyStamps :
          \E r \in {Controller_PIController(CtrlState, ref, meas, ms)} :
              /\ integrator' = r.integrator
              /\ time_prev' = r.time_prev
              /\ first_call_after_reset' = r.first_call_after_reset
              /\ hist' = [NoHist EXCEPT
                    !.op = "pi", !.path = r.path, !.ref = ref, !.meas = meas,
                    !.ms = ms, !.ret = r.ret, !.divided = r.divided,
                    !.clamped = r.clamped, !.called = TRUE,
                    !.pre = [NoHist.pre EXCEPT
                               !.integrator = integrator,
                               !.time_prev = time_prev,
                               !.first = first_call_after_reset],
                    !.prev = PrevOf(hist)]
    /\ calls' = calls + 1
    /\ UNCHANGED <<estVars, unit, disp, appVars>>

\* a run ends with a call whose arithmetic left its type: C does not define
\* what the program does from there
UnvalidatedNext == HInType /\ (KPICallUnvalidated \/ KReset)

SpecUnvalidated == UnvalidatedInit /\ [][UnvalidatedNext]_vars

\* C30: for every reference, measurement and timestamp that reaches
\* Controller_PIController, every intermediate result stays within its C
\* type: the error fits int32_t; KI * error * dt_ms, integrator + i_increment
\* and p_term + integrator fit int64_t.
C30_IntermediatesFit == unit = "controller.c" => HInType

====
